---------------------------- MODULE Spec2Model ----------------------------
(***************************************************************************)
(* A model of the OmniSketch measurement library: the packed counter       *)
(* (Util::DynamicIntX), the counter hierarchy (Sketch::CounterHierarchy)   *)
(* and the sketches built on hashing (Bloom filter, counting Bloom filter, *)
(* Count-Min, CH-backed Count-Min, Count-Sketch, Flow-Radar).              *)
(*                                                                         *)
(* Every method is a pure operator from the object's state (a record of    *)
(* its data members) to the state it leaves, its return value and the      *)
(* exception it throws; the actions of each specification call them.       *)
(* Indices are 0-based as in the source.                                   *)
(***************************************************************************)
EXTENDS Integers, Sequences, FiniteSets, TLC

VARIABLES
  dynT,     \* SpecDyn: the template argument T of the DynamicIntX under test
  dynX,     \* SpecDyn: the DynamicIntX object, [counter, bits]
  dynLast   \* SpecDyn: the last call: residue before it (r), argument and
            \* result; n counts the calls, hist lists the arguments given
            \* to the int32_t counter of the test

VARIABLES
  hier,     \* SpecCH, SpecTH: the CounterHierarchy object
  chObs,    \* SpecCH, SpecTH: the last call on hier with its result, and the
            \* history of the calls (see ChObsInit)
  thPc      \* SpecTH: the position of TestHierarchy in its script

VARIABLES
  sk,       \* SpecSk, SpecCM, SpecBF, SpecFR: the sketch object, [kind, obj]
  skObs     \* the same: the last call on sk with its result, and the
            \* history of the calls (see SkObsInit)

VARIABLES
  gnd,      \* SpecGT: the GndTruth instances, [a, b, r]: two flow summaries
            \* and the instance that receives the calls under test
  gndObs,   \* SpecGT: the records at hand, the last call on gnd with its
            \* arguments and the instances before it (see GndObsInit)
  fkey,     \* SpecFK: the FlowKey object under test
  fkeyObs   \* SpecFK: the last call on fkey with its result

dynVars == <<dynT, dynX, dynLast>>
chVars == <<hier, chObs, thPc>>
skVars == <<sk, skObs>>
dataVars == <<gnd, gndObs, fkey, fkeyObs>>

vars ==
  <<dynT, dynX, dynLast, hier, chObs, thPc, sk, skObs, gnd, gndObs, fkey,
    fkeyObs>>

\* The variables a specification does not use stay at this value.
Idle == "idle"

-----------------------------------------------------------------------------
(* Bounds of the model.                                                    *)

\* Width in bits of the small integer type that stands for T where every
\* value of T is enumerated (int32_t and int64_t in the source).
TBits == 5

\* Longest sequence of operator+ calls on one packed counter.
MaxAdds == 3

\* Width in bits kept of the uint64_t a hashing object computes with.
HashBits == 3

\* Largest init and hardener of the AwareHash objects the model draws.
MaxHashParam == 1

\* Most updateCnt calls on one counter hierarchy.
MaxUpdates == 2

\* Most getCnt calls on one counter hierarchy that throw overflow_error.
MaxFailedReads == 2

\* The flow keys given to a sketch have the byte 0 .. MaxKey.
MaxKey == 2

\* Most calls on one sketch.
MaxOps == 3

\* The number of records of the stream a ground truth is built from.
MaxRecords == 2

\* Most constructor-like calls on one GndTruth instance.
MaxCalled == 2

\* key_len of the flow key under test and other_len of the key copied from,
\* in bytes
KeyLen == 2
OtherLen == 3

\* Largest value the least-squares solver is taken to round to where the
\* source does not determine it.
MaxUnd == 1

-----------------------------------------------------------------------------
(* Integer types.  A type is [bits, sgn]; its values are the integers of   *)
(* that width.                                                             *)

Int32 == [bits |-> 32, sgn |-> TRUE]
SmallSigned == [bits |-> TBits, sgn |-> TRUE]
SmallUnsigned == [bits |-> TBits, sgn |-> FALSE]

TMin(T) == IF T.sgn THEN -(2 ^ (T.bits - 1)) ELSE 0
\* 2^31 - 1 written so that no intermediate value leaves 32 bits
TMax(T) == IF T.sgn THEN (2 ^ (T.bits - 2) - 1) * 2 + 1
           ELSE (2 ^ (T.bits - 1) - 1) * 2 + 1
ValuesOf(T) == TMin(T) .. TMax(T)

Min(S) == CHOOSE x \in S : \A y \in S : x <= y
Max(S) == CHOOSE x \in S : \A y \in S : y <= x
Abs(x) == IF x < 0 THEN -x ELSE x

\* C++ integer division and conversion of a real to an integer truncate
\* toward zero; a \div b of TLA+ rounds down.
TruncDiv(a, b) == IF (a >= 0) = (b > 0) \/ a = 0
                  THEN Abs(a) \div Abs(b)
                  ELSE -(Abs(a) \div Abs(b))

-----------------------------------------------------------------------------
(* Util::DynamicIntX<T>                                                     *)

\* `bound` of operator+: (1 << (sizeof(T) * 8 - 2)) - 1
Bound(T) == 2 ^ (T.bits - 2) - 1

\* The widths the constructor accepts: it throws length_error unless
\* 0 < bits < sizeof(T) * 8 - 1.
ValidBits(T) == 1 .. (T.bits - 2)

\* DynamicIntX(size_t bits) : counter(0), bits(bits)
DynamicIntX(bits) == [counter |-> 0, bits |-> bits]

\* A variant of operator+ whose borrow is off by one (mutant).
OperatorPlusNoBorrow(T, x, val) ==
  LET constant == 2 ^ x.bits
  IN  IF val >= 0
      THEN IF val > Bound(T)
           THEN [x |-> x, ret |-> 0, threw |-> TRUE]
           ELSE LET add == x.counter + (val % constant)
                IN  [x |-> [x EXCEPT !.counter = add % constant],
                     ret |-> (val \div constant) + (add \div constant),
                     threw |-> FALSE]
      ELSE IF val < -Bound(T)
           THEN [x |-> x, ret |-> 0, threw |-> TRUE]
           ELSE LET negate == -val
                    add == constant + x.counter - (negate % constant)
                IN  [x |-> [x EXCEPT !.counter = add % constant],
                     ret |-> -((negate \div constant) - (add \div constant)),
                     threw |-> FALSE]

\* T operator+(T val): adds val to the counter, keeps the low `bits` bits
\* and returns the overflowed value; throws overflow_error when |val| >
\* bound.  [x: the object afterwards, ret, threw]
OperatorPlus(T, x, val) ==
  LET constant == 2 ^ x.bits
  IN  IF val >= 0
      THEN IF val > Bound(T)
           THEN [x |-> x, ret |-> 0, threw |-> TRUE]
           ELSE LET overflow == val \div constant
                    add == x.counter + (val % constant)
                IN  [x |-> [x EXCEPT !.counter = add % constant],
                     ret |-> overflow + (add \div constant),
                     threw |-> FALSE]
      ELSE IF val < -Bound(T)
           THEN [x |-> x, ret |-> 0, threw |-> TRUE]
           ELSE LET negate == -val
                    negate_overflow == negate \div constant
                    add == constant + x.counter - (negate % constant)
                IN  [x |-> [x EXCEPT !.counter = add % constant],
                     ret |-> -(negate_overflow + 1 - (add \div constant)),
                     threw |-> FALSE]

\* T getVal() const
GetVal(x) == x.counter

-----------------------------------------------------------------------------
(* Hash::HashBase, Hash::AwareHash and the TestHash of test_hierarchy.cpp. *)
(* A hashing object is [kind, init, scale, hardener, my_seed]; uint64_t    *)
(* arithmetic is kept modulo 2^HashBits.                                   *)

Word(x) == x % (2 ^ HashBits)

RECURSIVE BitXor(_, _)
BitXor(a, b) ==
  IF a = 0 THEN b
  ELSE IF b = 0 THEN a
  ELSE (((a % 2) + (b % 2)) % 2) + 2 * BitXor(a \div 2, b \div 2)

\* The native byte representation of an integer of n bytes (little-endian
\* host), and the integer a byte array holds.
RECURSIVE BytesOf(_, _)
BytesOf(val, n) ==
  IF n = 0 THEN <<>> ELSE <<val % 256>> \o BytesOf(val \div 256, n - 1)

RECURSIVE ValueOfBytes(_)
ValueOfBytes(data) ==
  IF data = <<>> THEN 0 ELSE Head(data) + 256 * ValueOfBytes(Tail(data))

AwareHash(init, scale, hardener) ==
  [kind |-> "AwareHash", init |-> init, scale |-> scale,
   hardener |-> hardener, my_seed |-> 0]

\* TestHash() : my_seed(seed++)
TestHash(seed) ==
  [kind |-> "TestHash", init |-> 0, scale |-> 0, hardener |-> 0,
   my_seed |-> seed]

\* The loop of AwareHash::hash: result *= scale; result += *data++;
RECURSIVE AwareHashLoop(_, _, _)
AwareHashLoop(h, data, result) ==
  IF data = <<>> THEN result
  ELSE AwareHashLoop(h, Tail(data), Word(Word(result * h.scale) + Head(data)))

\* uint64_t AwareHash::hash(const uint8_t *data, const int32_t n) const
AwareHash_hash(h, data) ==
  BitXor(AwareHashLoop(h, data, Word(h.init)), Word(h.hardener))

\* uint64_t TestHash::hash(const uint8_t *key, const int32_t len) const
TestHash_hash(h, data) ==
  LET cnt == ValueOfBytes(data)
  IN  CASE h.my_seed % 4 \in {0, 2} -> cnt
        [] h.my_seed % 4 = 1 -> cnt + 1
        [] OTHER -> IF cnt = 2 THEN cnt ELSE cnt + 1

\* HashBase::operator()(const uint8_t *key, const int32_t len) const
Hash(h, data) ==
  IF h.kind = "TestHash" THEN TestHash_hash(h, data) ELSE AwareHash_hash(h, data)

\* HashBase::operator()(const size_t val) const: sizeof(size_t) = 8
HashSizeT(h, val) == Hash(h, BytesOf(val, 8))

\* The hashing objects a default-constructed AwareHash may be: its
\* constructor draws (init, scale, hardener) from rand().
AwareHashes ==
  {AwareHash(i, 1, d) : i \in 0 .. MaxHashParam, d \in 0 .. MaxHashParam}

-----------------------------------------------------------------------------
(* Sketch::CounterHierarchy<no_layer, T, hash_t>                            *)
(* A hierarchy is the record of its data members; the vectors are          *)
(* functions on 0 .. size-1 and lazy_update (a std::map) is a function on  *)
(* the set of its keys.                                                    *)

Vec(seq) == [i \in 0 .. Len(seq) - 1 |-> seq[i + 1]]
Size(v) == Cardinality(DOMAIN v)

EmptyMap == <<>>

\* A variant of MapAdd that assigns instead of adding (mutant).
MapAddAssign(m, k, v) ==
  [x \in DOMAIN m \cup {k} |-> IF x = k THEN v ELSE m[x]]

\* std::map: m[k] += v, the entry value-initialised when absent
MapAdd(m, k, v) ==
  IF k \in DOMAIN m THEN [m EXCEPT ![k] = @ + v]
  ELSE [x \in DOMAIN m \cup {k} |-> IF x = k THEN v ELSE m[x]]

RECURSIVE SumOver(_, _)
\* the sum of f over the finite set S
SumOver(f, S) ==
  IF S = {} THEN 0
  ELSE LET x == CHOOSE y \in S : TRUE IN f[x] + SumOver(f, S \ {x})

\* The constructor's validity checks (it throws invalid_argument, or
\* DynamicIntX throws length_error, when one fails).
ValidHierarchy(T, no_cnt, width_cnt, no_hash) ==
  /\ Size(no_cnt) >= 1
  /\ Size(width_cnt) = Size(no_cnt)
  /\ Size(no_hash) = Size(no_cnt) - 1
  /\ \A i \in DOMAIN no_cnt : no_cnt[i] # 0
  /\ \A i \in DOMAIN width_cnt : width_cnt[i] # 0
  /\ \A i \in DOMAIN no_hash : no_hash[i] # 0
  /\ SumOver(width_cnt, DOMAIN width_cnt) <= T.bits
  /\ \A i \in DOMAIN width_cnt : width_cnt[i] \in ValidBits(T)

\* CounterHierarchy(no_cnt, width_cnt, no_hash); hash_fns are the hashing
\* objects the constructor default-constructs.
CounterHierarchy(T, no_cnt, width_cnt, no_hash, hash_fns) ==
  [T |-> T,
   no_layer |-> Size(no_cnt),
   no_cnt |-> no_cnt,
   width_cnt |-> width_cnt,
   no_hash |-> no_hash,
   hash_fns |-> hash_fns,
   cnt_array |-> [l \in DOMAIN no_cnt |->
                    [i \in 0 .. no_cnt[l] - 1 |-> DynamicIntX(width_cnt[l])]],
   status_bits |-> [l \in DOMAIN no_cnt |-> [i \in 0 .. no_cnt[l] - 1 |-> FALSE]],
   original_cnt |-> [i \in 0 .. no_cnt[0] - 1 |-> 0],
   decoded_cnt |-> [i \in 0 .. no_cnt[0] - 1 |-> 0],
   lazy_update |-> EmptyMap]

\* hash_fns[layer][i](idx) % no_cnt[layer + 1]
UpperIndex(ch, layer, i, idx) ==
  HashSizeT(ch.hash_fns[layer][i], idx) % ch.no_cnt[layer + 1]

\* A variant of the inner loop that uses the first hash function only
\* (mutant).
HashToUpperOnce(ch, layer, idx, overflow, ret, i) ==
  MapAdd(ret, UpperIndex(ch, layer, 0, idx), overflow)

\* The inner loop of updateLayer: ret[index] += overflow for each of the
\* no_hash[layer] hash functions, from the i-th on.
RECURSIVE HashToUpper(_, _, _, _, _, _)
HashToUpper(ch, layer, idx, overflow, ret, i) ==
  IF i >= ch.no_hash[layer] THEN ret
  ELSE HashToUpper(ch, layer, idx, overflow,
                   MapAdd(ret, UpperIndex(ch, layer, i, idx), overflow), i + 1)

\* The loop of updateLayer over the entries of `updates` whose keys are in
\* todo, in key order.  [ch, ret, threw, log]: log lists what each visited
\* counter was given and returned.
RECURSIVE UpdateLayerLoop(_, _, _, _, _, _)
UpdateLayerLoop(ch, layer, updates, todo, ret, log) ==
  IF todo = {} THEN [ch |-> ch, ret |-> ret, threw |-> "none", log |-> log]
  ELSE
    LET idx == Min(todo)
        r == OperatorPlus(ch.T, ch.cnt_array[layer][idx], updates[idx])
        overflow == r.ret
        ev == [layer |-> layer, idx |-> idx, val |-> updates[idx],
               overflow |-> overflow, threw |-> r.threw]
        ch1 == [ch EXCEPT !.cnt_array[layer][idx] = r.x]
        ch2 == [ch1 EXCEPT !.status_bits[layer][idx] = TRUE]
    IN  IF r.threw
        THEN [ch |-> ch, ret |-> ret, threw |-> "overflow_error:value",
              log |-> Append(log, ev)]
        ELSE IF overflow = 0
        THEN UpdateLayerLoop(ch1, layer, updates, todo \ {idx}, ret,
                             Append(log, ev))
        ELSE IF layer = ch.no_layer - 1
        THEN [ch |-> ch2, ret |-> ret, threw |-> "overflow_error:last_layer",
              log |-> Append(log, ev)]
        ELSE UpdateLayerLoop(ch2, layer, updates, todo \ {idx},
                             HashToUpper(ch, layer, idx, overflow, ret, 0),
                             Append(log, ev))

\* A variant of updateLayer that swallows the exception (mutant).
UpdateLayerNoThrow(ch, layer, updates, log) ==
  [UpdateLayerLoop(ch, layer, updates, DOMAIN updates, EmptyMap, log)
     EXCEPT !.threw = "none"]

\* CarryOver updateLayer(const int32_t layer, CarryOver &&updates)
UpdateLayer(ch, layer, updates, log) ==
  UpdateLayerLoop(ch, layer, updates, DOMAIN updates, EmptyMap, log)

\* The flush loop of getCnt from layer i on:
\*   lazy_update = updateLayer(i, std::move(lazy_update));
\* The assignment is not reached when updateLayer throws.
RECURSIVE FlushFrom(_, _, _)
FlushFrom(ch, i, log) ==
  IF i >= ch.no_layer THEN [ch |-> ch, threw |-> "none", log |-> log]
  ELSE LET u == UpdateLayer(ch, i, ch.lazy_update, log)
       IN  IF u.threw # "none"
           THEN [ch |-> u.ch, threw |-> u.threw, log |-> u.log]
           ELSE FlushFrom([u.ch EXCEPT !.lazy_update = u.ret], i + 1, u.log)

\* The elements of a finite set of integers in increasing order.
RECURSIVE SortedSeq(_)
SortedSeq(S) ==
  IF S = {} THEN <<>> ELSE <<Min(S)>> \o SortedSeq(S \ {Min(S)})

\* The determinant of a square matrix given as a sequence of rows.
RECURSIVE Det(_)
Det(M) ==
  IF Len(M) = 0 THEN 1
  ELSE IF Len(M) = 1 THEN M[1][1]
  ELSE LET n == Len(M)
           Minor(j) == [a \in 1 .. n - 1 |->
                          [b \in 1 .. n - 1 |->
                             M[a + 1][IF b < j THEN b ELSE b + 1]]]
           term == [j \in 1 .. n |->
                      IF M[1][j] = 0 THEN 0
                      ELSE (IF j % 2 = 1 THEN 1 ELSE -1) * M[1][j]
                             * Det(Minor(j))]
       IN  SumOver(term, 1 .. n)

\* The columns of A that decodeLayer fills: the counters whose status bit
\* is set.
Flagged(ch, layer) ==
  {i \in 0 .. ch.no_cnt[layer] - 1 : ch.status_bits[layer][i]}

\* Entry (k, i) of the sparse matrix A of decodeLayer: one triplet
\* (k, i, 1.0) per hash function that sends i to k, duplicates summed.
EntryA(ch, layer, k, i) ==
  IF ~ch.status_bits[layer][i] THEN 0
  ELSE Cardinality({j \in 0 .. ch.no_hash[layer] - 1 :
                      UpperIndex(ch, layer, j, i) = k})

\* solver_sparse.compute(A); X = solver_sparse.solve(b), followed by
\* static_cast<T>(X[i] + 0.5), for the counters whose status bit is set.
\* Eigen's LeastSquaresConjugateGradient returns a minimiser of |A X - b|.
\* When the set columns of A are independent the minimiser is the one
\* solution of the normal equations (A^T A) X = A^T b, computed here
\* exactly by Cramer's rule.  When they are dependent, or X[i] + 0.5 is
\* exactly an integer, the value the floating-point iteration rounds to is
\* not determined by the source: it is und[i].
SolveRounded(ch, layer, higher, und) ==
  LET cols == SortedSeq(Flagged(ch, layer))
      n == Len(cols)
      rows == 0 .. ch.no_cnt[layer + 1] - 1
      AtA == [a \in 1 .. n |->
                [b \in 1 .. n |->
                   SumOver([k \in rows |-> EntryA(ch, layer, k, cols[a])
                                             * EntryA(ch, layer, k, cols[b])],
                           rows)]]
      Atb == [a \in 1 .. n |->
                SumOver([k \in rows |-> EntryA(ch, layer, k, cols[a])
                                          * higher[k]], rows)]
      den == Det(AtA)
      num == [a \in 1 .. n |->
                Det([r \in 1 .. n |->
                       [c \in 1 .. n |->
                          IF c = a THEN Atb[r] ELSE AtA[r][c]]])]
  IN  [a \in 1 .. n |->
         IF den = 0 \/ (2 * num[a] + den) % (2 * den) = 0
         THEN [i |-> cols[a], x |-> und[cols[a]]]
         ELSE [i |-> cols[a], x |-> TruncDiv(2 * num[a] + den, 2 * den)]]

\* A variant of decodeLayer that adds the decoded carries unshifted
\* (mutant).
DecodeLayerNoShift(ch, layer, higher, und) ==
  LET sol == SolveRounded(ch, layer, higher, und)
      X == [i \in Flagged(ch, layer) |->
              (CHOOSE e \in {sol[a] : a \in DOMAIN sol} : e.i = i).x]
  IN  [i \in 0 .. ch.no_cnt[layer] - 1 |->
         (IF ch.status_bits[layer][i] THEN X[i] ELSE 0)
           + GetVal(ch.cnt_array[layer][i])]

\* std::vector<double> decodeLayer(const int32_t layer,
\*                                 std::vector<double> &&higher) const
DecodeLayer(ch, layer, higher, und) ==
  LET sol == SolveRounded(ch, layer, higher, und)
      X == [i \in Flagged(ch, layer) |->
              (CHOOSE e \in {sol[a] : a \in DOMAIN sol} : e.i = i).x]
  IN  [i \in 0 .. ch.no_cnt[layer] - 1 |->
         (IF ch.status_bits[layer][i]
          THEN X[i] * (2 ^ ch.width_cnt[layer])
          ELSE 0)
           + GetVal(ch.cnt_array[layer][i])]

\* The decode loop of getCnt from layer i down to layer 0.
RECURSIVE DecodeFrom(_, _, _, _)
DecodeFrom(ch, i, decoded, und) ==
  IF i < 0 THEN decoded
  ELSE DecodeFrom(ch, i - 1, DecodeLayer(ch, i, decoded, und), und)

\* A variant of updateCnt that adds the value to the counter at once
\* (mutant).
UpdateCntEager(ch, index, val) ==
  IF index >= ch.no_cnt[0]
  THEN [ch |-> ch, threw |-> "out_of_range"]
  ELSE [ch |-> [ch EXCEPT !.cnt_array[0][index] =
                             OperatorPlus(ch.T, @, val).x,
                          !.original_cnt[index] = @ + val],
        threw |-> "none"]

\* void updateCnt(size_t index, T val).  [ch, threw]
UpdateCnt(ch, index, val) ==
  IF index >= ch.no_cnt[0]
  THEN [ch |-> ch, threw |-> "out_of_range"]
  ELSE [ch |-> [ch EXCEPT !.lazy_update = MapAdd(@, index, val),
                          !.original_cnt[index] = @ + val],
        threw |-> "none"]

\* The values of the counters of the last layer, which getCnt hands to
\* the decode loop.
TopValues(ch) ==
  [i \in 0 .. ch.no_cnt[ch.no_layer - 1] - 1 |->
     GetVal(ch.cnt_array[ch.no_layer - 1][i])]

\* A variant of the end of getCnt that does not store the decoded vector
\* (mutant).
GetCntReturnNoCache(f, decoded, index) ==
  IF f.threw # "none"
  THEN [ch |-> f.ch, ret |-> 0, threw |-> f.threw, flushed |-> TRUE,
        log |-> f.log]
  ELSE [ch |-> [f.ch EXCEPT !.lazy_update = EmptyMap],
        ret |-> decoded[index], threw |-> "none", flushed |-> TRUE,
        log |-> f.log]

\* The end of the lazy-update branch of getCnt, f being the outcome of the
\* flush loop and decoded that of the decode loop:
\*   lazy_update.clear(); ...; decoded_cnt[i] = static_cast<T>(decoded[i]);
\*   return decoded_cnt[index];
\* Nothing after the flush loop is reached when it throws.
GetCntReturn(f, decoded, index) ==
  IF f.threw # "none"
  THEN [ch |-> f.ch, ret |-> 0, threw |-> f.threw, flushed |-> TRUE,
        log |-> f.log]
  ELSE [ch |-> [f.ch EXCEPT !.lazy_update = EmptyMap,
                            !.decoded_cnt = decoded],
        ret |-> decoded[index], threw |-> "none", flushed |-> TRUE,
        log |-> f.log]

\* The lazy-update branch of getCnt after its flush loop.
GetCntDecode(f, index, und) ==
  GetCntReturn(f,
               DecodeFrom(f.ch, f.ch.no_layer - 2, TopValues(f.ch), und),
               index)

\* T getCnt(size_t index).  [ch, ret, threw, flushed, log]: flushed tells
\* whether the call took the lazy-update branch, log what the flush gave
\* to and got from each counter it visited.
GetCnt(ch, index, und) ==
  IF index >= ch.no_cnt[0]
  THEN [ch |-> ch, ret |-> 0, threw |-> "out_of_range", flushed |-> FALSE,
        log |-> <<>>]
  ELSE IF DOMAIN ch.lazy_update = {}
  THEN [ch |-> ch, ret |-> ch.decoded_cnt[index], threw |-> "none",
        flushed |-> FALSE, log |-> <<>>]
  ELSE GetCntDecode(FlushFrom(ch, 0, <<>>), index, und)

\* T getOriginalCnt(size_t index) const
GetOriginalCnt(ch, index) == ch.original_cnt[index]

\* void clear(): the counters, the status bits, the original counters and
\* lazy_update are reset; the reset of decoded_cnt is commented out.
Clear(ch) ==
  [ch EXCEPT
     !.cnt_array = [l \in DOMAIN ch.no_cnt |->
                      [i \in 0 .. ch.no_cnt[l] - 1 |->
                         DynamicIntX(ch.width_cnt[l])]],
     !.status_bits = [l \in DOMAIN ch.no_cnt |->
                        [i \in 0 .. ch.no_cnt[l] - 1 |-> FALSE]],
     !.original_cnt = [i \in 0 .. ch.no_cnt[0] - 1 |-> 0],
     !.lazy_update = EmptyMap]

-----------------------------------------------------------------------------
(* SpecCH: a counter hierarchy under any sequence of updateCnt, getCnt and *)
(* clear calls.                                                            *)

\* The hierarchies of the model: a single layer (as the counting Bloom
\* filter builds) and two layers, over the small signed type.
ChShapes ==
  {[no_cnt |-> <<2>>, width_cnt |-> <<2>>, no_hash |-> <<>>],
   [no_cnt |-> <<2, 2>>, width_cnt |-> <<2, 1>>, no_hash |-> <<2>>]}

\* The hashing objects of a layer of the model: two that send every index
\* to the same upper counter, and two that send it to different ones.
ChHashes ==
  {<<AwareHash(0, 1, 0), AwareHash(0, 1, 0)>>,
   <<AwareHash(0, 1, 0), AwareHash(1, 1, 0)>>}

\* The hashing objects of a hierarchy of the given shape: no_hash[i]
\* objects for each layer but the last.
HashFnsOf(no_hash) ==
  [DOMAIN no_hash -> {Vec(hs) : hs \in ChHashes}]

ChObjects ==
  UNION {{CounterHierarchy(SmallSigned, Vec(s.no_cnt), Vec(s.width_cnt),
                           Vec(s.no_hash), hf) :
            hf \in HashFnsOf(Vec(s.no_hash))} : s \in ChShapes}

\* The values updateCnt is called with: small ones of both signs and one
\* above the bound of DynamicIntX::operator+.
ChDeltas == {-1, 3, Bound(SmallSigned) + 1}

\* What the solver may round to where the source leaves it open.
UndChoices(c) ==
  {[i \in 0 .. Max({c.no_cnt[l] : l \in DOMAIN c.no_cnt}) - 1 |-> u] :
     u \in 0 .. MaxUnd}

\* chObs: op, index, val: the last call and its arguments; ret, threw,
\* flushed, log: what it returned (see GetCnt); nupd: the number of
\* updateCnt calls; truth[i]: the sum of the values updateCnt(i, .) was
\* given since construction or the last clear; pending: the values
\* updateCnt was given since the last getCnt that flushed or clear, summed
\* by index; inRange: at no flush so far a counter of layer 0 has returned
\* a carry or a borrow or thrown; failed: a getCnt has thrown an
\* overflow_error, nfail of them; cleared: clear has been called; readOK:
\* a getCnt has returned a value and no updateCnt was called since;
\* carry[l][i]: the sum of the carries and borrows that counter i of layer
\* l has returned since construction or the last clear.
ChObsInit(c) ==
  [op |-> "init", index |-> 0, val |-> 0, ret |-> 0, threw |-> "none",
   flushed |-> FALSE, log |-> <<>>, nupd |-> 0,
   truth |-> [i \in 0 .. c.no_cnt[0] - 1 |-> 0], pending |-> EmptyMap,
   inRange |-> TRUE, failed |-> FALSE, nfail |-> 0, cleared |-> FALSE,
   readOK |-> FALSE,
   carry |-> [l \in DOMAIN c.no_cnt |-> [i \in 0 .. c.no_cnt[l] - 1 |-> 0]]]

\* Both are thrown as std::overflow_error: by updateLayer at the last layer
\* and by DynamicIntX::operator+.
OverflowErrors == {"overflow_error:last_layer", "overflow_error:value"}

InLayer0Range(c, truth) ==
  \A i \in DOMAIN truth : truth[i] >= 0 /\ truth[i] < 2 ^ c.width_cnt[0]

\* No counter of layer 0 returned a carry or a borrow, or threw, in the
\* flush that log records.
NoCarry0(log) ==
  \A k \in DOMAIN log :
     log[k].layer = 0 => log[k].overflow = 0 /\ ~log[k].threw

\* A counter of the last layer returned a carry or a borrow in the flush.
TopCarry(c, log) ==
  \E k \in DOMAIN log :
     log[k].layer = c.no_layer - 1 /\ ~log[k].threw /\ log[k].overflow # 0

\* DynamicIntX::operator+ threw in the flush: a counter was given a value
\* above its bound in magnitude.
ExceedsBound(log) == \E k \in DOMAIN log : log[k].threw

\* carry with what the counters returned in the flush that log records,
\* from the k-th entry on.
RECURSIVE CarryAfter(_, _, _)
CarryAfter(carry, log, k) ==
  IF k > Len(log) THEN carry
  ELSE CarryAfter(
         IF log[k].threw THEN carry
         ELSE [carry EXCEPT ![log[k].layer][log[k].idx] = @ + log[k].overflow],
         log, k + 1)

ChInit ==
  /\ hier \in ChObjects
  /\ ValidHierarchy(hier.T, hier.no_cnt, hier.width_cnt, hier.no_hash)
  /\ chObs = ChObsInit(hier)
  /\ thPc = Idle
  /\ dynT = Idle /\ dynX = Idle /\ dynLast = Idle
  /\ sk = Idle /\ skObs = Idle
  /\ gnd = Idle /\ gndObs = Idle /\ fkey = Idle /\ fkeyObs = Idle

\* The step of the shared state that a call of updateCnt(index, val) takes.
DoUpdateCnt(index, val) ==
  \E r \in {UpdateCnt(hier, index, val)} :
      /\ hier' = r.ch
      /\ chObs' = [chObs EXCEPT
           !.op = "updateCnt", !.index = index, !.val = val, !.ret = 0,
           !.threw = r.threw, !.flushed = FALSE, !.log = <<>>,
           !.nupd = @ + 1,
           !.truth = IF r.threw = "none" THEN [@ EXCEPT ![index] = @ + val]
                     ELSE @,
           !.pending = IF r.threw = "none" THEN MapAdd(@, index, val) ELSE @,
           !.readOK = FALSE]

\* The step that a call of getCnt(index) takes.
DoGetCnt(index, und) ==
  \E r \in {GetCnt(hier, index, und)} :
      /\ hier' = r.ch
      /\ chObs' = [chObs EXCEPT
           !.op = "getCnt", !.index = index, !.val = 0, !.ret = r.ret,
           !.threw = r.threw, !.flushed = r.flushed, !.log = r.log,
           !.pending = IF r.flushed THEN EmptyMap ELSE @,
           !.inRange = @ /\ NoCarry0(r.log),
           !.failed = @ \/ r.threw \in OverflowErrors,
           !.nfail = IF r.threw \in OverflowErrors THEN @ + 1 ELSE @,
           !.readOK = IF r.threw = "none" THEN TRUE ELSE @,
           !.carry = CarryAfter(@, r.log, 1)]

ChUpdateCnt ==
  /\ chObs.nupd < MaxUpdates
  /\ \E index \in 0 .. hier.no_cnt[0], val \in ChDeltas :
       \* the sums stay values of T (signed overflow is undefined)
       /\ index < hier.no_cnt[0] =>
            /\ hier.original_cnt[index] + val \in ValuesOf(hier.T)
            /\ index \in DOMAIN hier.lazy_update =>
                 hier.lazy_update[index] + val \in ValuesOf(hier.T)
       /\ DoUpdateCnt(index, val)
  /\ UNCHANGED <<thPc, dynVars, skVars, dataVars>>

ChGetCnt ==
  /\ chObs.nfail < MaxFailedReads
  /\ \E index \in 0 .. hier.no_cnt[0] :
       \E und \in IF DOMAIN hier.lazy_update = {}
                  THEN {CHOOSE u \in UndChoices(hier) : TRUE}
                  ELSE UndChoices(hier) :
         DoGetCnt(index, und)
  /\ UNCHANGED <<thPc, dynVars, skVars, dataVars>>

ChClear ==
  /\ ~chObs.cleared
  /\ hier' = Clear(hier)
  /\ chObs' = [chObs EXCEPT
       !.op = "clear", !.index = 0, !.val = 0, !.ret = 0, !.threw = "none",
       !.flushed = FALSE, !.log = <<>>,
       !.truth = [i \in DOMAIN @ |-> 0], !.pending = EmptyMap,
       !.cleared = TRUE,
       !.carry = [l \in DOMAIN @ |-> [i \in DOMAIN @[l] |-> 0]]]
  /\ UNCHANGED <<thPc, dynVars, skVars, dataVars>>

ChNext == ChUpdateCnt \/ ChGetCnt \/ ChClear

SpecCH == ChInit /\ [][ChNext]_vars

\* C1: as long as no counter of layer 0 has returned a carry or a borrow
\* at a flush (and clear was not called), getCnt(i) with i < m_0 returns a
\* value, and that value is getOriginalCnt(i), the sum of the values
\* updateCnt(i, .) was given.
C1_ReadEqualsShadow ==
  (chObs.op = "getCnt" /\ chObs.index < hier.no_cnt[0]
     /\ chObs.inRange /\ ~chObs.cleared)
    => /\ chObs.threw = "none"
       /\ chObs.ret = GetOriginalCnt(hier, chObs.index)
       /\ chObs.ret = chObs.truth[chObs.index]

\* Two updates of one index of a two-layer hierarchy, flushed by the read
\* that returns their sum.
C1_Witness ==
  /\ chObs.op = "getCnt" /\ chObs.flushed /\ chObs.inRange
  /\ ~chObs.cleared
  /\ hier.no_layer = 2 /\ chObs.nupd = 2
  /\ chObs.index = 1 /\ chObs.ret = 2 /\ chObs.truth[1] = 2

\* C3 (as stated): getCnt throws an overflow_error exactly when a counter
\* of the last layer returned a carry or a borrow in the flush.
C3_OverflowIffTopCarry ==
  chObs.op = "getCnt"
    => (chObs.threw \in OverflowErrors <=> TopCarry(hier, chObs.log))

\* C3 (amended): getCnt throws an overflow_error exactly when, in the
\* flush it triggers, a counter of the last layer returned a carry or a
\* borrow or a counter of any layer was given a value above
\* 2^(8*sizeof(T)-2)-1 in magnitude; otherwise a read of an index below m_0
\* returns a value.  In a single-layer hierarchy none of whose reads has
\* failed before, the read fails exactly when a layer-0 total has left
\* [0, 2^w_0).
C3_OverflowIffTopCarryOrBound ==
  chObs.op = "getCnt"
    => /\ chObs.threw \in OverflowErrors
            <=> (TopCarry(hier, chObs.log) \/ ExceedsBound(chObs.log))
       /\ (chObs.threw \notin OverflowErrors
              /\ chObs.index < hier.no_cnt[0]) => chObs.threw = "none"
       /\ (hier.no_layer = 1 /\ chObs.flushed
              /\ chObs.nfail = (IF chObs.threw \in OverflowErrors
                                THEN 1 ELSE 0))
            => (chObs.threw \in OverflowErrors
                  <=> ~InLayer0Range(hier, chObs.truth))

\* A read of a two-layer hierarchy that throws because a counter of the
\* last layer returned a carry.
C3_Witness ==
  /\ chObs.op = "getCnt" /\ hier.no_layer = 2
  /\ chObs.threw = "overflow_error:last_layer"
  /\ TopCarry(hier, chObs.log) /\ ~ExceedsBound(chObs.log)

\* C4: a call updateCnt(i, delta) with i < m_0 adds delta to entry i of
\* lazy_update and of original_cnt and changes nothing else of the
\* hierarchy; lazy_update holds the sums of the values given since the last
\* flush.
C4_UpdateCntFrame ==
  [][(chObs'.nupd = chObs.nupd + 1 /\ chObs'.threw = "none")
       => /\ hier'.lazy_update =
               MapAdd(hier.lazy_update, chObs'.index, chObs'.val)
          /\ hier'.original_cnt =
               [hier.original_cnt EXCEPT ![chObs'.index] = @ + chObs'.val]
          /\ hier' = [hier EXCEPT !.lazy_update = hier'.lazy_update,
                                  !.original_cnt = hier'.original_cnt]
          /\ hier'.cnt_array = hier.cnt_array
          /\ hier'.status_bits = hier.status_bits
          /\ hier'.decoded_cnt = hier.decoded_cnt
          /\ (~chObs.failed => hier'.lazy_update = chObs'.pending)]_vars

\* The second of two updates of one index: both are pending, summed, and
\* no counter has been touched.
C4_Witness ==
  /\ chObs.op = "updateCnt" /\ chObs.threw = "none" /\ chObs.nupd = 2
  /\ chObs.index = 0 /\ chObs.val = -1
  /\ hier.lazy_update = [i \in {0} |-> 2]
  /\ hier.original_cnt[0] = 2
  /\ \A l \in DOMAIN hier.cnt_array : \A i \in DOMAIN hier.cnt_array[l] :
        GetVal(hier.cnt_array[l][i]) = 0 /\ ~hier.status_bits[l][i]

\* C5: a getCnt that follows a getCnt that returned a value, with no
\* updateCnt between them, does not flush, leaves the hierarchy as it was
\* and returns the value cached for its index, which for the index of the
\* earlier read is the value that read returned.
C5_SecondReadCached ==
  [][(chObs.readOK /\ chObs'.op = "getCnt"
        /\ chObs'.index < hier.no_cnt[0])
       => /\ hier' = hier
          /\ ~chObs'.flushed /\ chObs'.threw = "none"
          /\ chObs'.ret = hier.decoded_cnt[chObs'.index]
          /\ (chObs.op = "getCnt" /\ chObs.threw = "none"
                /\ chObs'.index = chObs.index) => chObs'.ret = chObs.ret
          /\ (chObs.op = "getCnt" /\ chObs.threw = "none")
               => chObs.ret = hier.decoded_cnt[chObs.index]]_vars

\* A read answered from the cache after a read that flushed a carry into
\* the second layer.
C5_Witness ==
  /\ chObs.op = "getCnt" /\ chObs.readOK /\ ~chObs.flushed
  /\ chObs.threw = "none" /\ hier.no_layer = 2
  /\ chObs.index = 0 /\ chObs.ret = 6
  /\ hier.status_bits[0][0] /\ DOMAIN hier.lazy_update = {}

-----------------------------------------------------------------------------
(* SpecTH: the first scenario of TestHierarchy in test_hierarchy.cpp.  thPc *)
(* is the position of the test: the loop it is in, the round j of the outer *)
(* loop and the index i of the next call.                                   *)

\* const std::vector<size_t> no_cnt, width_cnt, no_hash of the test
ThNoCnt == Vec(<<7, 5, 3>>)
ThWidthCnt == Vec(<<10, 10, 10>>)
ThNoHash == Vec(<<2, 2>>)

\* constexpr int32_t a[7]
ThA == Vec(<<3309568, 356352001, 163842, 10243, 1028, 5, 6>>)

\* The hashing objects the constructor builds: TestHash numbers its
\* objects in the order of their construction.
ThHashFns ==
  Vec(<<Vec(<<TestHash(0), TestHash(1)>>), Vec(<<TestHash(2), TestHash(3)>>)>>)

\* The number of rounds of the outer loop of the test.
ThRounds == 10

\* What the test expects of getCnt(i) and getOriginalCnt(i) after `done`
\* rounds of the outer loop.
ThExpected(i, done) == (ThA[i] % 10) + ((ThA[i] \div 10) * done)

ThInit ==
  /\ hier = CounterHierarchy(Int32, ThNoCnt, ThWidthCnt, ThNoHash, ThHashFns)
  /\ ValidHierarchy(hier.T, hier.no_cnt, hier.width_cnt, hier.no_hash)
  /\ chObs = ChObsInit(hier)
  /\ thPc = [loop |-> "first_update", j |-> 0, i |-> 0]
  /\ dynT = Idle /\ dynX = Idle /\ dynLast = Idle
  /\ sk = Idle /\ skObs = Idle
  /\ gnd = Idle /\ gndObs = Idle /\ fkey = Idle /\ fkeyObs = Idle

\* The position after the call at index thPc.i of the current loop.
ThAdvance(next, j) ==
  IF thPc.i + 1 < Size(ThA) THEN [thPc EXCEPT !.i = @ + 1]
  ELSE [loop |-> next, j |-> j, i |-> 0]

\* ch.updateCnt(i, a[i] % 10) and ch.updateCnt(i, a[i] / 10)
ThUpdate ==
  /\ \/ /\ thPc.loop = "first_update"
        /\ DoUpdateCnt(thPc.i, ThA[thPc.i] % 10)
        /\ thPc' = ThAdvance("first_read", 0)
     \/ /\ thPc.loop = "update"
        /\ DoUpdateCnt(thPc.i, ThA[thPc.i] \div 10)
        /\ thPc' = ThAdvance("read", thPc.j)
  /\ UNCHANGED <<dynVars, skVars, dataVars>>

\* VERIFY(ch.getCnt(i) == ...) of the three reading loops
ThRead ==
  /\ \E und \in UndChoices(hier) :
       \/ /\ thPc.loop = "first_read"
          /\ DoGetCnt(thPc.i, und)
          /\ thPc' = ThAdvance("update", 0)
       \/ /\ thPc.loop = "read"
          /\ DoGetCnt(thPc.i, und)
          /\ thPc' = ThAdvance(IF thPc.j + 1 < ThRounds THEN "update"
                                ELSE "last_read",
                               IF thPc.j + 1 < ThRounds THEN thPc.j + 1
                                ELSE thPc.j)
       \/ /\ thPc.loop = "last_read"
          /\ DoGetCnt(thPc.i, und)
          /\ thPc' = ThAdvance("done", thPc.j)
  /\ UNCHANGED <<dynVars, skVars, dataVars>>

ThNext == ThUpdate \/ ThRead

SpecTH == ThInit /\ [][ThNext]_vars

\* The number of rounds of the outer loop completed when the last call
\* returned.
ThDone ==
  IF thPc.loop = "update" THEN thPc.j
  ELSE IF thPc.loop = "read" /\ thPc.i > 0 THEN thPc.j + 1
  ELSE IF thPc.loop \in {"last_read", "done"} THEN ThRounds
  ELSE 0

\* C2: in the scenario of TestHierarchy every getCnt(i) returns a value,
\* which is getOriginalCnt(i) and the total written to i so far, and the
\* reads of the last loop return a[i].
C2_TestHierarchyDecodes ==
  chObs.op = "getCnt"
    => /\ chObs.threw = "none"
       /\ chObs.ret = GetOriginalCnt(hier, chObs.index)
       /\ chObs.ret = ThExpected(chObs.index,
                                 IF thPc.loop = "last_read" /\ thPc.i = 0
                                 THEN ThRounds ELSE ThDone)
       /\ (thPc.loop = "done" \/ (thPc.loop = "last_read" /\ thPc.i > 0))
            => chObs.ret = ThA[chObs.index]

\* The end of the scenario: the last read returned a[6], and counters of
\* layer 0 and of layer 1 have overflowed.
C2_Witness ==
  /\ thPc.loop = "done" /\ chObs.op = "getCnt" /\ chObs.index = 6
  /\ chObs.ret = 6
  /\ hier.decoded_cnt[1] = 356352001
  /\ \E i \in DOMAIN hier.status_bits[0] : hier.status_bits[0][i]
  /\ \E i \in DOMAIN hier.status_bits[1] : hier.status_bits[1][i]

-----------------------------------------------------------------------------
(* SpecDyn: one packed counter under any sequence of additions.            *)

\* The values TestDynamicIntX adds to its int32_t counters.
TestAddends == {127, 565, -310, -269, 2, 1073741823, -1073741823,
                1073741824, -1073741824}

DynTypes == {SmallSigned, SmallUnsigned, Int32}

DynWidths(T) == IF T = Int32 THEN {4, 30} ELSE ValidBits(T)

DynAddends(T) == IF T = Int32 THEN TestAddends ELSE ValuesOf(T)

DynInit ==
  /\ dynT \in DynTypes
  /\ \E bits \in DynWidths(dynT) : dynX = DynamicIntX(bits)
  /\ dynLast = [n |-> 0, hist |-> <<>>, r |-> 0, val |-> 0, ret |-> 0,
                threw |-> FALSE]
  /\ hier = Idle /\ chObs = Idle /\ thPc = Idle
  /\ sk = Idle /\ skObs = Idle
  /\ gnd = Idle /\ gndObs = Idle /\ fkey = Idle /\ fkeyObs = Idle

DynAdd ==
  /\ dynLast.n < MaxAdds
  /\ \E val \in DynAddends(dynT) :
       LET res == OperatorPlus(dynT, dynX, val)
       IN  /\ dynX' = res.x
           /\ dynLast' = [n |-> dynLast.n + 1,
                          hist |-> IF dynT = Int32
                                   THEN Append(dynLast.hist, val)
                                   ELSE <<>>,
                          r |-> dynX.counter, val |-> val,
                          ret |-> res.ret, threw |-> res.threw]
  /\ UNCHANGED <<dynT, chVars, skVars, dataVars>>

DynNext == DynAdd

SpecDyn == DynInit /\ [][DynNext]_vars

\* C6: after any sequence of additions, an addition of val with
\* |val| <= 2^(8*sizeof(T)-2) - 1 does not throw, returns a carry ret and
\* leaves a residue with r + val = residue + ret * 2^w and
\* 0 <= residue < 2^w, a negative val giving a borrow ret <= 0; and on a
\* width-4 int32_t counter starting at 0, adding 0x7F returns 7 leaving
\* 0xF and then adding 0x235 returns 0x24 leaving 0x4.
C6_CarryResidue ==
  /\ (dynLast.n > 0 /\ Abs(dynLast.val) <= Bound(dynT)) =>
       /\ ~dynLast.threw
       /\ dynLast.r + dynLast.val
            = GetVal(dynX) + dynLast.ret * (2 ^ dynX.bits)
       /\ GetVal(dynX) >= 0
       /\ GetVal(dynX) < 2 ^ dynX.bits
       /\ (dynLast.val < 0 => dynLast.ret <= 0)
       /\ (dynLast.val >= 0 => dynLast.ret >= 0)
  /\ (dynT = Int32 /\ dynX.bits = 4 /\ dynLast.hist = <<127>>) =>
       (dynLast.ret = 7 /\ GetVal(dynX) = 15)
  /\ (dynT = Int32 /\ dynX.bits = 4 /\ dynLast.hist = <<127, 565>>) =>
       (dynLast.ret = 36 /\ GetVal(dynX) = 4)

\* C6 witness: the test's width-4 int32_t counter after adding 0x7F, 0x235
\* and -0x136: a carry, then a borrow out of a non-empty counter.
C6_Witness ==
  /\ dynT = Int32
  /\ dynX.bits = 4
  /\ dynLast.hist = <<127, 565, -310>>
  /\ dynLast.r = 4
  /\ dynLast.ret = -20
  /\ GetVal(dynX) = 14
  /\ ~dynLast.threw

-----------------------------------------------------------------------------
(* Util::IsPrime, Util::NextPrime and FlowKey<key_len>.  A flow key is the  *)
(* sequence of its bytes.                                                   *)

\* bool IsPrime(int32_t n), for n > 0
IsPrime(n) ==
  IF n % 2 = 0 THEN n = 2
  ELSE /\ \A i \in 3 .. n : (i % 2 = 1 /\ i * i <= n) => n % i # 0
       /\ n # 1

\* int32_t NextPrime(int32_t n)
RECURSIVE NextPrime(_)
NextPrime(n) == IF IsPrime(n) THEN n ELSE NextPrime(n + 1)

\* FlowKey<key_len> &FlowKey<key_len>::operator^=(const FlowKey &otherkey)
XorKey(a, b) == [i \in DOMAIN a |-> BitXor(a[i], b[i])]

\* FlowKey(): every byte zero
ZeroKey(len) == [i \in 1 .. len |-> 0]

\* HashBase::operator()(const FlowKey<key_len> &flowkey)
HashKey(h, key) == Hash(h, key)

\* std::sort of a sequence of integers
RECURSIVE InsertSorted(_, _)
InsertSorted(seq, x) ==
  IF seq = <<>> THEN <<x>>
  ELSE IF x <= Head(seq) THEN <<x>> \o seq
  ELSE <<Head(seq)>> \o InsertSorted(Tail(seq), x)

RECURSIVE SortValues(_)
SortValues(seq) ==
  IF seq = <<>> THEN <<>>
  ELSE InsertSorted(SortValues(Tail(seq)), Head(seq))

-----------------------------------------------------------------------------
(* Sketch::BloomFilter<key_len, hash_t>: [nbits, num_hash, nbytes, arr,     *)
(* hash_fns], arr the bytes of the bit array.                               *)

\* BloomFilter(int32_t num_bits, int32_t num_hash_class)
BloomFilter(num_bits, num_hash_class, hash_fns) ==
  [nbits |-> NextPrime(num_bits),
   num_hash |-> num_hash_class,
   nbytes |-> (NextPrime(num_bits) + 7) \div 8,
   hash_fns |-> hash_fns,
   arr |-> [i \in 0 .. ((NextPrime(num_bits) + 7) \div 8) - 1 |-> 0]]

\* bool getBit(int32_t pos) const: (arr[BYTE(pos)] >> BIT(pos)) & 1
GetBit(bf, pos) == (bf.arr[pos \div 8] \div (2 ^ (pos % 8))) % 2 = 1

\* A variant of setBit that flips the bit (mutant).
SetBitFlip(bf, pos) ==
  IF GetBit(bf, pos)
  THEN [bf EXCEPT !.arr[pos \div 8] = @ - (2 ^ (pos % 8))]
  ELSE [bf EXCEPT !.arr[pos \div 8] = @ + (2 ^ (pos % 8))]

\* void setBit(int32_t pos): arr[BYTE(pos)] |= (1 << BIT(pos))
SetBit(bf, pos) ==
  IF GetBit(bf, pos) THEN bf
  ELSE [bf EXCEPT !.arr[pos \div 8] = @ + (2 ^ (pos % 8))]

\* The loop of insert from the i-th hash function on.
RECURSIVE BloomFilterInsertFrom(_, _, _)
BloomFilterInsertFrom(bf, key, i) ==
  IF i >= bf.num_hash THEN bf
  ELSE BloomFilterInsertFrom(
         SetBit(bf, HashKey(bf.hash_fns[i], key) % bf.nbits), key, i + 1)

\* void BloomFilter::insert(const FlowKey<key_len> &flowkey)
BloomFilter_insert(bf, key) == BloomFilterInsertFrom(bf, key, 0)

\* bool BloomFilter::lookup(const FlowKey<key_len> &flowkey) const
BloomFilter_lookup(bf, key) ==
  \A i \in 0 .. bf.num_hash - 1 :
     GetBit(bf, HashKey(bf.hash_fns[i], key) % bf.nbits)

\* void BloomFilter::clear()
BloomFilter_clear(bf) == [bf EXCEPT !.arr = [i \in DOMAIN @ |-> 0]]

-----------------------------------------------------------------------------
(* Sketch::CMSketch<key_len, T, hash_t>: [depth, width, hash_fns, counter]. *)

\* CMSketch(int32_t depth_, int32_t width_)
CMSketch(depth, width, hash_fns) ==
  [depth |-> depth, width |-> NextPrime(width), hash_fns |-> hash_fns,
   counter |-> [i \in 0 .. depth - 1 |->
                  [j \in 0 .. NextPrime(width) - 1 |-> 0]]]

\* The loop of update from row i on.
RECURSIVE CMUpdateFrom(_, _, _, _)
CMUpdateFrom(cm, key, val, i) ==
  IF i >= cm.depth THEN cm
  ELSE CMUpdateFrom(
         [cm EXCEPT !.counter[i][HashKey(cm.hash_fns[i], key) % cm.width] =
                      @ + val],
         key, val, i + 1)

\* A variant of update that leaves out every row but the last (mutant).
CMSketch_updateLastRow(cm, key, val) ==
  CMUpdateFrom(cm, key, val, cm.depth - 1)

\* update with `=` in place of `+=` in the first row
CMSketch_updateSet(cm, key, val) ==
  [cm EXCEPT !.counter[0][HashKey(cm.hash_fns[0], key) % cm.width] = val]

\* void CMSketch::update(const FlowKey<key_len> &flowkey, T val)
CMSketch_update(cm, key, val) == CMUpdateFrom(cm, key, val, 0)

\* The loop of query from row i on.
RECURSIVE CMQueryFrom(_, _, _, _)
CMQueryFrom(cm, key, min_val, i) ==
  IF i >= cm.depth THEN min_val
  ELSE CMQueryFrom(
         cm, key,
         Min({min_val,
              cm.counter[i][HashKey(cm.hash_fns[i], key) % cm.width]}),
         i + 1)

\* T CMSketch::query(const FlowKey<key_len> &flowkey) const, T = int32_t
CMSketch_query(cm, key) == CMQueryFrom(cm, key, TMax(Int32), 0)

\* void CMSketch::clear()
CMSketch_clear(cm) ==
  [cm EXCEPT !.counter = [i \in DOMAIN @ |-> [j \in DOMAIN @[i] |-> 0]]]

-----------------------------------------------------------------------------
(* Sketch::CountSketch<key_len, T, hash_t>: as CMSketch, with 2 * depth     *)
(* hashing objects.                                                         *)

\* CountSketch(int32_t depth_, int32_t width_)
CountSketch(depth, width, hash_fns) ==
  [depth |-> depth, width |-> NextPrime(width), hash_fns |-> hash_fns,
   counter |-> [i \in 0 .. depth - 1 |->
                  [j \in 0 .. NextPrime(width) - 1 |-> 0]]]

\* static_cast<int>(hash_fns[depth + i](flowkey) & 1) * 2 - 1
CountSketchSign(cs, key, i) ==
  ((HashKey(cs.hash_fns[cs.depth + i], key) % 2) * 2) - 1

\* The loop of update from row i on.
RECURSIVE CountSketchUpdateFrom(_, _, _, _)
CountSketchUpdateFrom(cs, key, val, i) ==
  IF i >= cs.depth THEN cs
  ELSE CountSketchUpdateFrom(
         [cs EXCEPT !.counter[i][HashKey(cs.hash_fns[i], key) % cs.width] =
                      @ + (val * CountSketchSign(cs, key, i))],
         key, val, i + 1)

\* void CountSketch::update(const FlowKey<key_len> &flowkey, T val)
CountSketch_update(cs, key, val) == CountSketchUpdateFrom(cs, key, val, 0)

\* The median of the sorted values, as query computes it.
CountSketchMedian(values, depth) ==
  IF depth % 2 = 0
  THEN Abs(TruncDiv(values[depth \div 2] + values[(depth \div 2) + 1], 2))
  ELSE Abs(values[(depth \div 2) + 1])

\* T CountSketch::query(const FlowKey<key_len> &flowkey) const
CountSketch_query(cs, key) ==
  CountSketchMedian(
    SortValues([i \in 1 .. cs.depth |->
                  cs.counter[i - 1][HashKey(cs.hash_fns[i - 1], key)
                                      % cs.width]
                    * CountSketchSign(cs, key, i - 1)]),
    cs.depth)

\* void CountSketch::clear()
CountSketch_clear(cs) ==
  [cs EXCEPT !.counter = [i \in DOMAIN @ |-> [j \in DOMAIN @[i] |-> 0]]]

-----------------------------------------------------------------------------
(* Sketch::CountingBloomFilter<key_len, hash_t>: [ncnt, nhash, hash_fns,    *)
(* counter], counter a single-layer CounterHierarchy.  Its type T is        *)
(* int64_t in the source; the model keeps it at 32 bits, as every value it  *)
(* holds is far below either bound.  A method returns the filter it leaves  *)
(* and the exception that escaped it.                                       *)

\* The und argument of GetCnt for a single-layer hierarchy, which solves no
\* system.
NoUnd == <<>>

\* CountingBloomFilter(int32_t num_cnt, int32_t num_hash, int32_t cnt_length)
CountingBloomFilter(num_cnt, num_hash, cnt_length, hash_fns) ==
  [ncnt |-> NextPrime(num_cnt), nhash |-> num_hash, hash_fns |-> hash_fns,
   counter |-> CounterHierarchy(Int32, Vec(<<NextPrime(num_cnt)>>),
                                Vec(<<cnt_length>>), Vec(<<>>), Vec(<<>>))]

\* The loop `while (i < nhash)` of insert, lookup and remove from i on:
\* [cbf, i, threw], i the index at which it stopped.  r is the outcome of
\* counter->getCnt(idx) for the i-th hashing object.
RECURSIVE CountingBloomFilterScan(_, _, _)
RECURSIVE CountingBloomFilterScanStep(_, _, _, _)
CountingBloomFilterScanStep(cbf, key, i, r) ==
  IF r.threw # "none" \/ r.ret = 0
  THEN [cbf |-> [cbf EXCEPT !.counter = r.ch], i |-> i, threw |-> r.threw]
  ELSE CountingBloomFilterScan([cbf EXCEPT !.counter = r.ch], key, i + 1)

CountingBloomFilterScan(cbf, key, i) ==
  IF i >= cbf.nhash THEN [cbf |-> cbf, i |-> i, threw |-> "none"]
  ELSE CountingBloomFilterScanStep(
         cbf, key, i,
         GetCnt(cbf.counter, HashKey(cbf.hash_fns[i], key) % cbf.ncnt,
                NoUnd))

\* for (j ...) counter->updateCnt(hash_fns[j](flowkey) % ncnt, val)
RECURSIVE CountingBloomFilterAddFrom(_, _, _, _)
CountingBloomFilterAddFrom(cbf, key, val, j) ==
  IF j >= cbf.nhash THEN cbf
  ELSE CountingBloomFilterAddFrom(
         [cbf EXCEPT !.counter =
            UpdateCnt(@, HashKey(cbf.hash_fns[j], key) % cbf.ncnt, val).ch],
         key, val, j + 1)

\* A variant of the second half of insert that increments the counter of
\* the last hashing object only (mutant).
CountingBloomFilterInsertAfterLast(scan, key) ==
  IF scan.threw = "none" /\ scan.i < scan.cbf.nhash
  THEN [cbf |-> CountingBloomFilterAddFrom(scan.cbf, key, 1,
                                           scan.cbf.nhash - 1),
        threw |-> "none"]
  ELSE [cbf |-> scan.cbf, threw |-> scan.threw]

\* The second half of insert, scan being the outcome of its first loop.
CountingBloomFilterInsertAfter(scan, key) ==
  IF scan.threw = "none" /\ scan.i < scan.cbf.nhash
  THEN [cbf |-> CountingBloomFilterAddFrom(scan.cbf, key, 1, 0),
        threw |-> "none"]
  ELSE [cbf |-> scan.cbf, threw |-> scan.threw]

\* void CountingBloomFilter::insert(const FlowKey<key_len> &flowkey)
CountingBloomFilter_insert(cbf, key) ==
  CountingBloomFilterInsertAfter(CountingBloomFilterScan(cbf, key, 0), key)

\* The return of lookup after its loop.
CountingBloomFilterLookupAfter(scan) ==
  [cbf |-> scan.cbf,
   ret |-> scan.threw = "none" /\ scan.i >= scan.cbf.nhash,
   threw |-> scan.threw]

\* bool CountingBloomFilter::lookup(const FlowKey<key_len> &flowkey) const
CountingBloomFilter_lookup(cbf, key) ==
  CountingBloomFilterLookupAfter(CountingBloomFilterScan(cbf, key, 0))

\* void CountingBloomFilter::clear()
CountingBloomFilter_clear(cbf) == [cbf EXCEPT !.counter = Clear(@)]

-----------------------------------------------------------------------------
(* Sketch::CHCMSketch<key_len, no_layer, T, hash_t>: [depth, width,         *)
(* hash_fns, ch].  cnt_no_ratio is the fraction ratio_num / ratio_den.      *)

\* The loop that prepares no_cnt:
\*   no_cnt.push_back(Util::NextPrime(std::ceil(last_layer * cnt_no_ratio)))
RECURSIVE CHCMNoCnt(_, _, _, _)
CHCMNoCnt(no_cnt, no_layer, ratio_num, ratio_den) ==
  IF Len(no_cnt) >= no_layer THEN no_cnt
  ELSE CHCMNoCnt(
         Append(no_cnt,
                NextPrime((no_cnt[Len(no_cnt)] * ratio_num + ratio_den - 1)
                            \div ratio_den)),
         no_layer, ratio_num, ratio_den)

\* CHCMSketch(depth, width, cnt_no_ratio, width_cnt, no_hash); T is the
\* counter type, ch_hash_fns the hashing objects of the hierarchy.
CHCMSketch(T, depth, width, ratio_num, ratio_den, width_cnt, no_hash, hash_fns, ch_hash_fns) ==
  [depth |-> depth, width |-> NextPrime(width), hash_fns |-> hash_fns,
   ch |-> CounterHierarchy(
            T,
            Vec(CHCMNoCnt(<<depth * NextPrime(width)>>, Len(width_cnt),
                          ratio_num, ratio_den)),
            Vec(width_cnt), Vec(no_hash), ch_hash_fns)]

\* The loop of update from row i on.
RECURSIVE CHCMUpdateFrom(_, _, _, _)
CHCMUpdateFrom(s, key, val, i) ==
  IF i >= s.depth THEN s
  ELSE CHCMUpdateFrom(
         [s EXCEPT !.ch =
            UpdateCnt(@, i * s.width
                           + (HashKey(s.hash_fns[i], key) % s.width),
                      val).ch],
         key, val, i + 1)

\* void CHCMSketch::update(const FlowKey<key_len> &flowkey, T val)
CHCMSketch_update(s, key, val) == CHCMUpdateFrom(s, key, val, 0)

\* The loop of query from row i on: [s, ret, threw].  r is the outcome of
\* ch->getCnt(i * width + index).
RECURSIVE CHCMQueryFrom(_, _, _, _, _)
RECURSIVE CHCMQueryStep(_, _, _, _, _, _)
CHCMQueryStep(s, key, min_val, i, und, r) ==
  IF r.threw # "none"
  THEN [s |-> [s EXCEPT !.ch = r.ch], ret |-> 0, threw |-> r.threw]
  ELSE CHCMQueryFrom([s EXCEPT !.ch = r.ch], key, Min({min_val, r.ret}),
                     i + 1, und)

CHCMQueryFrom(s, key, min_val, i, und) ==
  IF i >= s.depth THEN [s |-> s, ret |-> min_val, threw |-> "none"]
  ELSE CHCMQueryStep(
         s, key, min_val, i, und,
         GetCnt(s.ch,
                i * s.width + (HashKey(s.hash_fns[i], key) % s.width), und))

\* T CHCMSketch::query(const FlowKey<key_len> &flowkey) const
CHCMSketch_query(s, key, und) ==
  CHCMQueryFrom(s, key, TMax(s.ch.T), 0, und)

\* void CHCMSketch::clear()
CHCMSketch_clear(s) == [s EXCEPT !.ch = Clear(@)]

-----------------------------------------------------------------------------
(* Sketch::FlowRadar<key_len, T, hash_t>: [num_bitmap, num_bit_hash,        *)
(* num_count_table, num_count_hash, num_flows, hash_fns, flow_filter,       *)
(* count_table].                                                            *)

\* CountTableEntry() : flowXOR(), flow_count(0), packet_count(0)
CountTableEntry(key_len) ==
  [flowXOR |-> ZeroKey(key_len), flow_count |-> 0, packet_count |-> 0]

\* FlowRadar(flow_filter_size, flow_filter_hash, count_table_size,
\*           count_table_hash); filter_hash_fns are the hashing objects
\* the flow filter constructs.
FlowRadar(key_len, flow_filter_size, flow_filter_hash, count_table_size, count_table_hash, hash_fns, filter_hash_fns) ==
  [key_len |-> key_len,
   num_bitmap |-> NextPrime(flow_filter_size),
   num_bit_hash |-> flow_filter_hash,
   num_count_table |-> NextPrime(count_table_size),
   num_count_hash |-> count_table_hash,
   num_flows |-> 0,
   hash_fns |-> hash_fns,
   flow_filter |-> BloomFilter(NextPrime(flow_filter_size), flow_filter_hash,
                               filter_hash_fns),
   count_table |-> [i \in 0 .. NextPrime(count_table_size) - 1 |->
                      CountTableEntry(key_len)]]

\* The loop of update from the i-th hashing object on.
RECURSIVE FlowRadarUpdateFrom(_, _, _, _, _)
FlowRadarUpdateFrom(fr, key, val, exist, i) ==
  IF i >= fr.num_count_hash THEN fr
  ELSE FlowRadarUpdateFrom(
         [fr EXCEPT
            !.count_table[HashKey(fr.hash_fns[i], key) % fr.num_count_table] =
              IF exist
              THEN [flowXOR |-> @.flowXOR, flow_count |-> @.flow_count,
                    packet_count |-> @.packet_count + val]
              ELSE [flowXOR |-> XorKey(@.flowXOR, key),
                    flow_count |-> @.flow_count + 1,
                    packet_count |-> @.packet_count + val]],
         key, val, exist, i + 1)

\* A variant of update that takes every key for a new flow (mutant).
FlowRadar_updateAlwaysNew(fr, key, val) ==
  FlowRadarUpdateFrom(
    [fr EXCEPT !.flow_filter = BloomFilter_insert(@, key),
               !.num_flows = @ + 1],
    key, val, FALSE, 0)

\* void FlowRadar::update(const FlowKey<key_len> &flowkey, T val)
FlowRadar_update(fr, key, val) ==
  IF BloomFilter_lookup(fr.flow_filter, key)
  THEN FlowRadarUpdateFrom(fr, key, val, TRUE, 0)
  ELSE FlowRadarUpdateFrom(
         [fr EXCEPT !.flow_filter = BloomFilter_insert(@, key),
                    !.num_flows = @ + 1],
         key, val, FALSE, 0)

\* est[flowkey] = size
EstimationPut(est, flowkey, size) ==
  [x \in DOMAIN est \cup {flowkey} |-> IF x = flowkey THEN size ELSE est[x]]

\* A variant of *set.begin() that takes the entry ordered last (mutant).
FlowRadarBeginLast(fr, set) ==
  CHOOSE i \in set :
    \A j \in set :
       \/ fr.count_table[i].flow_count > fr.count_table[j].flow_count
       \/ /\ fr.count_table[i].flow_count = fr.count_table[j].flow_count
          /\ i >= j

\* *set.begin(): the entry that CompareFlowCount orders first, by
\* flow_count and then by address.
FlowRadarBegin(fr, set) ==
  CHOOSE i \in set :
    \A j \in set :
       \/ fr.count_table[i].flow_count < fr.count_table[j].flow_count
       \/ /\ fr.count_table[i].flow_count = fr.count_table[j].flow_count
          /\ i <= j

\* The inner loop of decode without `packet_count -= size`
RECURSIVE FlowRadarPeelKeepCount(_, _, _, _, _)
FlowRadarPeelKeepCount(fr, set, flowkey, size, i) ==
  IF i >= fr.num_count_hash THEN [fr |-> fr, set |-> set]
  ELSE FlowRadarPeelKeepCount(
         [fr EXCEPT
            !.count_table[HashKey(fr.hash_fns[i], flowkey)
                            % fr.num_count_table] =
              [flowXOR |-> XorKey(@.flowXOR, flowkey),
               flow_count |-> @.flow_count - 1,
               packet_count |-> @.packet_count]],
         set \cup {HashKey(fr.hash_fns[i], flowkey) % fr.num_count_table},
         flowkey, size, i + 1)

\* The inner loop of decode from the i-th hashing object on: the entries
\* of flowkey are taken out of the set, reduced and put back.  [fr, set]
RECURSIVE FlowRadarPeel(_, _, _, _, _)
FlowRadarPeel(fr, set, flowkey, size, i) ==
  IF i >= fr.num_count_hash THEN [fr |-> fr, set |-> set]
  ELSE FlowRadarPeel(
         [fr EXCEPT
            !.count_table[HashKey(fr.hash_fns[i], flowkey)
                            % fr.num_count_table] =
              [flowXOR |-> XorKey(@.flowXOR, flowkey),
               flow_count |-> @.flow_count - 1,
               packet_count |-> @.packet_count - size]],
         set \cup {HashKey(fr.hash_fns[i], flowkey) % fr.num_count_table},
         flowkey, size, i + 1)

\* The loop `while (!set.empty())` of decode.  [fr, est]
RECURSIVE FlowRadarDecodeLoop(_, _, _)
RECURSIVE FlowRadarDecodeAt(_, _, _, _)
RECURSIVE FlowRadarDecodePeeled(_, _)
FlowRadarDecodePeeled(p, est) == FlowRadarDecodeLoop(p.fr, p.set, est)

FlowRadarDecodeAt(fr, set, est, index) ==
  IF fr.count_table[index].flow_count > 1 THEN [fr |-> fr, est |-> est]
  ELSE IF fr.count_table[index].flow_count = 0
  THEN FlowRadarDecodeLoop(fr, set \ {index}, est)
  ELSE FlowRadarDecodePeeled(
         FlowRadarPeel(fr, set \ {index}, fr.count_table[index].flowXOR,
                       fr.count_table[index].packet_count, 0),
         EstimationPut(est, fr.count_table[index].flowXOR,
                       fr.count_table[index].packet_count))

FlowRadarDecodeLoop(fr, set, est) ==
  IF set = {} THEN [fr |-> fr, est |-> est]
  ELSE FlowRadarDecodeAt(fr, set, est, FlowRadarBegin(fr, set))

\* Data::Estimation<key_len, T> FlowRadar::decode()
FlowRadar_decode(fr) ==
  FlowRadarDecodeLoop(fr, 0 .. fr.num_count_table - 1, EmptyMap)

\* void FlowRadar::clear()
FlowRadar_clear(fr) ==
  [fr EXCEPT !.num_flows = 0,
             !.flow_filter = BloomFilter_clear(@),
             !.count_table = [i \in DOMAIN @ |-> CountTableEntry(fr.key_len)]]

-----------------------------------------------------------------------------
(* SpecSk, SpecCM, SpecBF, SpecFR: one sketch under any sequence of         *)
(* updates (inserts), queries (lookups, decodes) and clears.  sk is         *)
(* [kind, obj], obj the object of the class that kind names.                *)

\* The flow keys of the model: FlowKey<1> with the byte 0 .. MaxKey.
Keys == {<<b>> : b \in 0 .. MaxKey}

\* The hashing objects of the model's sketches.  Each is constructed from
\* rand(); the model takes the i-th object of a sketch to be one of
\* MaxHashParam + 1 objects, numbered by p.
SkHash(p, i) == AwareHash(i, 1, i * p)
SkHashFns(p, first, n) == [i \in 0 .. n - 1 |-> SkHash(p, first + i)]

SkKinds ==
  {"BloomFilter", "CountingBloomFilter", "CMSketch", "CHCMSketch",
   "CountSketch", "FlowRadar"}

\* The sketch of each kind that the model constructs; len is the cnt_length
\* of a counting Bloom filter.
SkObject(kind, p, len) ==
  CASE kind = "BloomFilter" -> BloomFilter(4, 2, SkHashFns(p, 0, 2))
    [] kind = "CountingBloomFilter" ->
         CountingBloomFilter(3, 2, len, SkHashFns(p, 0, 2))
    [] kind = "CMSketch" -> CMSketch(2, 2, SkHashFns(p, 0, 2))
    [] kind = "CHCMSketch" ->
         CHCMSketch(SmallSigned, 2, 2, 1, 2, <<2, 2>>, <<2>>,
                    SkHashFns(p, 0, 2), Vec(<<SkHashFns(p, 0, 2)>>))
    [] kind = "CountSketch" -> CountSketch(2, 2, SkHashFns(p, 0, 4))
    [] kind = "FlowRadar" ->
         FlowRadar(1, 2, 1, 5, 2, SkHashFns(p, 1, 2), SkHashFns(p, 0, 1))

SkCntLengths(kind) == IF kind = "CountingBloomFilter" THEN 1 .. 2 ELSE {1}

\* The values update is called with; insert takes none.
SkDeltas(kind) ==
  IF kind \in {"BloomFilter", "CountingBloomFilter"} THEN {1} ELSE {-1, 2}

\* The outcome [sk, threw] or [sk, ret, threw] of a call on the object of s.
SkOfCbf(s, r) == [sk |-> [s EXCEPT !.obj = r.cbf], threw |-> r.threw]
SkOf(s, obj) == [sk |-> [s EXCEPT !.obj = obj], threw |-> "none"]
SkRetOfCbf(s, r) ==
  [sk |-> [s EXCEPT !.obj = r.cbf], ret |-> r.ret, threw |-> r.threw]
SkRetOfChcm(s, r) ==
  [sk |-> [s EXCEPT !.obj = r.s], ret |-> r.ret, threw |-> r.threw]
SkRetOfDecode(s, r) ==
  [sk |-> [s EXCEPT !.obj = r.fr], ret |-> r.est, threw |-> "none"]
SkRet(s, ret) == [sk |-> s, ret |-> ret, threw |-> "none"]

\* insert(flowkey) or update(flowkey, val) on the sketch s
SkUpdate(s, key, val) ==
  CASE s.kind = "BloomFilter" -> SkOf(s, BloomFilter_insert(s.obj, key))
    [] s.kind = "CountingBloomFilter" ->
         SkOfCbf(s, CountingBloomFilter_insert(s.obj, key))
    [] s.kind = "CMSketch" -> SkOf(s, CMSketch_update(s.obj, key, val))
    [] s.kind = "CHCMSketch" -> SkOf(s, CHCMSketch_update(s.obj, key, val))
    [] s.kind = "CountSketch" ->
         SkOf(s, CountSketch_update(s.obj, key, val))
    [] s.kind = "FlowRadar" -> SkOf(s, FlowRadar_update(s.obj, key, val))

\* lookup(flowkey), query(flowkey) or decode() on the sketch s
SkQuery(s, key, und) ==
  CASE s.kind = "BloomFilter" -> SkRet(s, BloomFilter_lookup(s.obj, key))
    [] s.kind = "CountingBloomFilter" ->
         SkRetOfCbf(s, CountingBloomFilter_lookup(s.obj, key))
    [] s.kind = "CMSketch" -> SkRet(s, CMSketch_query(s.obj, key))
    [] s.kind = "CHCMSketch" ->
         SkRetOfChcm(s, CHCMSketch_query(s.obj, key, und))
    [] s.kind = "CountSketch" -> SkRet(s, CountSketch_query(s.obj, key))
    [] s.kind = "FlowRadar" -> SkRetOfDecode(s, FlowRadar_decode(s.obj))

\* clear() on the sketch s
SkClear(s) ==
  CASE s.kind = "BloomFilter" -> [s EXCEPT !.obj = BloomFilter_clear(@)]
    [] s.kind = "CountingBloomFilter" ->
         [s EXCEPT !.obj = CountingBloomFilter_clear(@)]
    [] s.kind = "CMSketch" -> [s EXCEPT !.obj = CMSketch_clear(@)]
    [] s.kind = "CHCMSketch" -> [s EXCEPT !.obj = CHCMSketch_clear(@)]
    [] s.kind = "CountSketch" -> [s EXCEPT !.obj = CountSketch_clear(@)]
    [] s.kind = "FlowRadar" -> [s EXCEPT !.obj = FlowRadar_clear(@)]

\* What the solver of a CH-backed sketch may round to where the source
\* leaves it open.
SkUndChoices(s) ==
  IF s.kind = "CHCMSketch" THEN UndChoices(s.obj.ch) ELSE {NoUnd}

\* The order in which the canonical run applies the calls: by key, then
\* by value.
OpBefore(a, b) ==
  a.key[1] < b.key[1] \/ (a.key[1] = b.key[1] /\ a.val <= b.val)

RECURSIVE InsertOp(_, _)
InsertOp(ops, op) ==
  IF ops = <<>> THEN <<op>>
  ELSE IF OpBefore(op, Head(ops)) THEN <<op>> \o ops
  ELSE <<Head(ops)>> \o InsertOp(Tail(ops), op)

\* The flow filter of a Flow-Radar reports key present before its first
\* update.
SkMasked(s, key, seen) ==
  /\ s.kind = "FlowRadar"
  /\ key \notin seen
  /\ BloomFilter_lookup(s.obj.flow_filter, key)

\* A run of updates is summed up as [sk, threw, masked, seen, last]: the
\* sketch it leaves, whether a call has thrown, whether a flow was masked,
\* the keys updated and what the last call threw.  u is the outcome of the
\* call op on r.sk.
RunNote(r, op, u) ==
  [sk |-> u.sk,
   threw |-> r.threw \/ u.threw # "none",
   masked |-> r.masked \/ SkMasked(r.sk, op.key, r.seen),
   seen |-> r.seen \cup {op.key},
   last |-> u.threw]

RunStep(r, op) == RunNote(r, op, SkUpdate(r.sk, op.key, op.val))

RECURSIVE Replay(_, _, _)
Replay(r, ops, i) ==
  IF i > Len(ops) THEN r ELSE Replay(RunStep(r, ops[i]), ops, i + 1)

RunInit(s) ==
  [sk |-> s, threw |-> FALSE, masked |-> FALSE, seen |-> {}, last |-> "none"]

\* skObs: op, key, val, ret, threw: the last call, its arguments and its
\* outcome; nops: the number of calls; truth[k]: the sum of the values k
\* was updated with; inserted: the keys updated; nonneg: no update had a
\* negative value; cleared: clear was called; anyThrew: an update has
\* thrown; masked: see SkMasked; phase: "updates" while only updates were
\* called, "queried" when queries followed them, "mixed" afterwards;
\* first: the last call was the first query after the updates; inOrder:
\* the updates came in the canonical order; sk0: the sketch as constructed;
\* ops: the updates in canonical order and canon: the run that applies them
\* to sk0 in that order (both kept in phase "updates" only).
SkObsInit(s) ==
  [op |-> "init", key |-> ZeroKey(1), val |-> 0, ret |-> 0, threw |-> "none",
   nops |-> 0, truth |-> [k \in Keys |-> 0], inserted |-> {},
   nonneg |-> TRUE, cleared |-> FALSE, anyThrew |-> FALSE, masked |-> FALSE,
   phase |-> "updates", first |-> FALSE, inOrder |-> TRUE, sk0 |-> s,
   ops |-> <<>>, canon |-> RunInit(s)]

SkInitOf(kinds) ==
  /\ \E kind \in kinds, p \in 0 .. MaxHashParam :
       \E len \in SkCntLengths(kind) :
         sk = [kind |-> kind, obj |-> SkObject(kind, p, len)]
  /\ sk.kind = "CHCMSketch" =>
       ValidHierarchy(sk.obj.ch.T, sk.obj.ch.no_cnt, sk.obj.ch.width_cnt,
                      sk.obj.ch.no_hash)
  /\ skObs = SkObsInit(sk)
  /\ dynT = Idle /\ dynX = Idle /\ dynLast = Idle
  /\ hier = Idle /\ chObs = Idle /\ thPc = Idle
  /\ gnd = Idle /\ gndObs = Idle /\ fkey = Idle /\ fkeyObs = Idle

SkInit == SkInitOf(SkKinds)
CmInit == SkInitOf({"CMSketch"})
BfInit == SkInitOf({"BloomFilter"})
FrInit == SkInitOf({"FlowRadar"})

\* The run so far, as a run summary.
SkLive ==
  [sk |-> sk, threw |-> skObs.anyThrew, masked |-> skObs.masked,
   seen |-> skObs.inserted, last |-> skObs.threw]

SkUpdateAct ==
  /\ skObs.nops < MaxOps
  /\ \E key \in Keys, val \in SkDeltas(sk.kind) :
       \E r \in {RunStep(SkLive, [key |-> key, val |-> val])} :
         \E ops \in {IF skObs.phase = "updates"
                     THEN InsertOp(skObs.ops, [key |-> key, val |-> val])
                     ELSE <<>>} :
           /\ sk' = r.sk
           /\ skObs' = [skObs EXCEPT
                !.op = "update", !.key = key, !.val = val, !.ret = 0,
                !.threw = r.last, !.nops = @ + 1,
                !.truth[key] = @ + val,
                !.inserted = r.seen,
                !.nonneg = @ /\ val >= 0,
                !.anyThrew = r.threw, !.masked = r.masked,
                !.phase = IF @ = "updates" THEN @ ELSE "mixed",
                !.first = FALSE,
                !.inOrder = @ /\ (skObs.ops = <<>>
                                    \/ OpBefore(skObs.ops[Len(skObs.ops)],
                                                [key |-> key, val |-> val])),
                !.ops = ops,
                !.canon = IF skObs.phase = "updates"
                          THEN Replay(RunInit(skObs.sk0), ops, 1)
                          ELSE RunInit(skObs.sk0)]
  /\ UNCHANGED <<dynVars, chVars, dataVars>>

SkQueryAct ==
  /\ skObs.nops < MaxOps
  /\ \E key \in IF sk.kind = "FlowRadar" THEN {ZeroKey(1)} ELSE Keys :
       \E und \in SkUndChoices(sk) :
         \E r \in {SkQuery(sk, key, und)} :
           /\ sk' = r.sk
           /\ skObs' = [skObs EXCEPT
                !.op = "query", !.key = key, !.val = 0, !.ret = r.ret,
                !.threw = r.threw, !.nops = @ + 1,
                !.phase = IF @ = "updates" THEN "queried" ELSE @,
                !.first = skObs.phase = "updates",
                !.ops = <<>>, !.canon = RunInit(skObs.sk0)]
  /\ UNCHANGED <<dynVars, chVars, dataVars>>

SkClearAct ==
  /\ skObs.nops < MaxOps
  /\ ~skObs.cleared
  /\ sk' = SkClear(sk)
  /\ skObs' = [skObs EXCEPT
       !.op = "clear", !.key = ZeroKey(1), !.val = 0, !.ret = 0,
       !.threw = "none", !.nops = @ + 1, !.cleared = TRUE,
       !.phase = "mixed", !.first = FALSE,
       !.ops = <<>>, !.canon = RunInit(skObs.sk0)]
  /\ UNCHANGED <<dynVars, chVars, dataVars>>

SkNext == SkUpdateAct \/ SkQueryAct \/ SkClearAct

SpecSk == SkInit /\ [][SkNext]_vars
SpecCM == CmInit /\ [][SkNext]_vars
SpecBF == BfInit /\ [][SkNext]_vars
SpecFR == FrInit /\ [][SkNext]_vars

-----------------------------------------------------------------------------
(* Claims on the sketches *)

\* C7: Count-Min never underestimates.  On a freshly constructed Count-Min
\* sketch that was only updated with values >= 0 (and queried), query(k)
\* is at least the sum of the values k was updated with, for every key k;
\* the value a query call returned is that minimum.
C7_CountMinNeverUnder ==
  (sk.kind = "CMSketch" /\ skObs.nonneg /\ ~skObs.cleared) =>
    /\ \A k \in Keys : CMSketch_query(sk.obj, k) >= skObs.truth[k]
    /\ skObs.op = "query" =>
         /\ skObs.ret = CMSketch_query(sk.obj, skObs.key)
         /\ skObs.ret >= skObs.truth[skObs.key]

\* A query of an updated key that returned more than the key's total,
\* after updates of two keys.
C7_Witness ==
  /\ sk.kind = "CMSketch" /\ skObs.nonneg /\ ~skObs.cleared
  /\ skObs.op = "query"
  /\ Cardinality(skObs.inserted) = 2
  /\ skObs.truth[skObs.key] > 0
  /\ skObs.ret > skObs.truth[skObs.key]

\* C8: a Bloom filter has no false negatives.  After any inserts and
\* lookups with no clear, lookup(k) is true for every inserted key k, and
\* a lookup call of an inserted key returned true.
C8_BloomNoFalseNegative ==
  (sk.kind = "BloomFilter" /\ ~skObs.cleared) =>
    /\ \A k \in skObs.inserted : BloomFilter_lookup(sk.obj, k)
    /\ (skObs.op = "query" /\ skObs.key \in skObs.inserted) =>
         skObs.ret = TRUE

\* A lookup of an inserted key after two inserts, one of them of a key
\* inserted before.
C8_Witness ==
  /\ sk.kind = "BloomFilter" /\ ~skObs.cleared
  /\ skObs.op = "query" /\ skObs.nops = MaxOps
  /\ skObs.key \in skObs.inserted
  /\ Cardinality(skObs.inserted) = 1
  /\ skObs.ret = TRUE

\* The ground truth of the updates: every updated key with the sum of its
\* values.
SkTruth == [k \in skObs.inserted |-> skObs.truth[k]]

\* decode has taken every flow out of every row of fr.
AllPeeled(fr) ==
  \A i \in 0 .. fr.num_count_table - 1 : fr.count_table[i].flow_count = 0

\* The outcome d of decode is the ground truth if it peeled the table.
RoundTrip(d) == AllPeeled(d.fr) => d.est = SkTruth

\* C9 as stated: whenever decode, called after updates only, takes every
\* flow out of every row, the Estimation it returns is the ground truth.
C9_DecodeRoundTrip ==
  (sk.kind = "FlowRadar" /\ skObs.phase = "updates") =>
    RoundTrip(FlowRadar_decode(sk.obj))

\* C9: Flow-Radar decode round trip.  After updates only, none of them of
\* a key that the flow filter reported present before the key's first
\* update, a decode that takes every flow out of every row returns the
\* ground truth: exactly the updated keys, each with its exact total; so
\* did the decode call that followed the updates.
C9_DecodeRoundTripUnmasked ==
  (sk.kind = "FlowRadar" /\ ~skObs.masked) =>
    /\ skObs.phase = "updates" => RoundTrip(FlowRadar_decode(sk.obj))
    /\ (skObs.op = "query" /\ skObs.first /\ AllPeeled(sk.obj)) =>
         skObs.ret = SkTruth

\* A decode call after updates of two flows that share a row, which
\* peeled the table and returned both flows.
C9_Witness ==
  /\ sk.kind = "FlowRadar" /\ ~skObs.masked
  /\ skObs.op = "query" /\ skObs.first
  /\ AllPeeled(sk.obj)
  /\ Cardinality(skObs.inserted) = 2
  /\ skObs.ret = SkTruth
  /\ \E k1 \in skObs.inserted, k2 \in skObs.inserted :
       /\ k1 # k2
       /\ \E i \in 0 .. sk.obj.num_count_hash - 1,
             j \in 0 .. sk.obj.num_count_hash - 1 :
               HashKey(sk.obj.hash_fns[i], k1) % sk.obj.num_count_table
                 = HashKey(sk.obj.hash_fns[j], k2) % sk.obj.num_count_table

\* What the sketch s answers to every lookup, query or decode, the
\* exception thrown included.
AnswerOf(q) == [ret |-> q.ret, threw |-> q.threw]
SkAnswers(s, und) == [k \in Keys |-> AnswerOf(SkQuery(s, k, und))]
NoThrow(s) ==
  \A und \in SkUndChoices(s), k \in Keys : SkQuery(s, k, und).threw = "none"
SameAnswers(s, t) ==
  \A und \in SkUndChoices(s) : SkAnswers(s, und) = SkAnswers(t, und)

-----------------------------------------------------------------------------
(* Data::GndTruth<key_len, T> (data.h).  An instance is the record          *)
(* [right, tot_value, called]: right is my_map as its right view shows it,  *)
(* the sequence of the relations [key, val] in vector order; the left view  *)
(* finds a relation by its key.  T is int64_t and is taken unbounded.  A    *)
(* record range [begin, end) is the sequence of its records, a threshold    *)
(* the fraction num / den with den > 0.                                     *)

\* GndTruth(): the instance as constructed
GndTruth == [right |-> <<>>, tot_value |-> 0, called |-> 0]

\* struct Record: the fields a ground truth reads
Record(flowkey, length) == [flowkey |-> flowkey, length |-> length]

\* my_map.left.count(flowkey)
LeftCount(right, flowkey) ==
  Cardinality({i \in 1 .. Len(right) : right[i].key = flowkey})

\* The position in the right view of the relation of flowkey.
LeftFind(right, flowkey) ==
  CHOOSE i \in 1 .. Len(right) : right[i].key = flowkey

\* my_map.left[flowkey] read: a relation with value T() is made if none is
\* there
LeftGet(right, flowkey) ==
  IF LeftCount(right, flowkey) > 0 THEN right[LeftFind(right, flowkey)].val
  ELSE 0

\* my_map.left[flowkey] = val: a new relation goes to the back of the right
\* view
LeftPut(right, flowkey, val) ==
  IF LeftCount(right, flowkey) > 0
  THEN [right EXCEPT ![LeftFind(right, flowkey)].val = val]
  ELSE Append(right, [key |-> flowkey, val |-> val])

\* The sum of the values of the relations of right.
RECURSIVE RightSum(_)
RightSum(right) ==
  IF right = <<>> THEN 0 ELSE Head(right).val + RightSum(Tail(right))

\* my_map.right.sort(std::greater<T>()): the sort is stable
RECURSIVE RightSortInsert(_, _)
RightSortInsert(sorted, e) ==
  IF sorted = <<>> THEN <<e>>
  ELSE IF Head(sorted).val >= e.val
  THEN <<Head(sorted)>> \o RightSortInsert(Tail(sorted), e)
  ELSE <<e>> \o sorted

RECURSIVE RightSortFrom(_, _, _)
RightSortFrom(right, i, sorted) ==
  IF i > Len(right) THEN sorted
  ELSE RightSortFrom(right, i + 1, RightSortInsert(sorted, right[i]))

RightSort(right) == RightSortFrom(right, 1, <<>>)

\* The check passing a second call: `called > 2`.
CalledBeforeTwice(g) == g.called + 1 > 2

\* CHECK_CALLED_ONCE: called++, and the call returns if called > 1
CalledOnce(g) == [g EXCEPT !.called = @ + 1]
CalledBefore(g) == g.called + 1 > 1

\* What a record counts for under cnt_method.
CntSize(record, cnt_method) ==
  IF cnt_method = "InLength" THEN record.length ELSE 1

\* The loop of getGroundTruth from the i-th record of the range on.
RECURSIVE GetGroundTruthFrom(_, _, _, _)
GetGroundTruthFrom(g, records, cnt_method, i) ==
  IF i > Len(records) THEN g
  ELSE GetGroundTruthFrom(
         [g EXCEPT
            !.right = LeftPut(@, records[i].flowkey,
                              LeftGet(@, records[i].flowkey)
                                + CntSize(records[i], cnt_method)),
            !.tot_value = @ + CntSize(records[i], cnt_method)],
         records, cnt_method, i + 1)

\* The instance g with the sort left out.
NotSorted(g) == g

\* my_map.right.sort(std::greater<T>()) on the instance g
Sorted(g) == [g EXCEPT !.right = RightSort(@)]

\* void GndTruth::getGroundTruth(begin, end, cnt_method)
GndTruth_getGroundTruth(g, records, cnt_method) ==
  IF CalledBefore(g) THEN CalledOnce(g)
  ELSE Sorted(GetGroundTruthFrom(CalledOnce(g), records, cnt_method, 1))

\* std::lower_bound(right.begin(), right.end(), thres, greater): the
\* binary search, first and the result counted from 0
RECURSIVE LowerBoundFrom(_, _, _, _)
LowerBoundFrom(right, thres, first, count) ==
  IF count <= 0 THEN first
  ELSE IF right[first + (count \div 2) + 1].val > thres
  THEN LowerBoundFrom(right, thres, first + (count \div 2) + 1,
                      count - ((count \div 2) + 1))
  ELSE LowerBoundFrom(right, thres, first, count \div 2)

LowerBound(right, thres) == LowerBoundFrom(right, thres, 0, Len(right))

\* my_map.right.erase(my_map.right.begin() + no, my_map.right.end()) and
\* the loop that adds the values left to tot_value
TruncatedTo(g, no) ==
  [g EXCEPT !.right = SubSeq(@, 1, no),
            !.tot_value = @ + RightSum(SubSeq(g.right, 1, no))]

Thrown(g) == [g |-> g, threw |-> "invalid_argument"]
Returned(g) == [g |-> g, threw |-> "none"]

\* The threshold rounded to the nearest integer instead.
ThresholdRounded(threshold) ==
  (2 * threshold.num + threshold.den) \div (2 * threshold.den)

\* static_cast<size_t>(threshold) of a threshold >= 1
ThresholdFloor(threshold) == threshold.num \div threshold.den

\* T thres = threshold * save: the conversion to T truncates
ThresholdOf(threshold, save) == TruncDiv(threshold.num * save, threshold.den)

\* ASSERT_AND_TRUNCATE_MYSELF_TO_THE_FIRST_K_ELEMENTS  [g, threw]
TopKTruncate(g, threshold) ==
  IF threshold.num < threshold.den THEN Thrown(g)
  ELSE Returned(TruncatedTo(g, Min({Len(g.right),
                                    ThresholdFloor(threshold)})))

\* ASSERT_AND_TRUNCATE_MYSELF_TO_ELEMENTS_WITH_GIVEN_VALUE  [g, threw]
PercentileTruncate(g, threshold, save) ==
  IF ~(threshold.num >= 0 /\ threshold.num <= threshold.den) THEN Thrown(g)
  ELSE Returned(TruncatedTo(g, LowerBound(g.right,
                                          ThresholdOf(threshold, save))))

\* The branch on the method that ends the moving and the record-range
\* variants.
Truncate(g, threshold, save, method) ==
  IF method = "TopK" THEN TopKTruncate(g, threshold)
  ELSE PercentileTruncate(g, threshold, save)

\* The loops of the copying getHeavyHitter: push_back of the first no
\* relations of the summary, each value added to tot_value
PushedBack(g, flow_summary, no) ==
  [g EXCEPT !.right = @ \o SubSeq(flow_summary.right, 1, no),
            !.tot_value = @ + RightSum(SubSeq(flow_summary.right, 1, no))]

\* void GndTruth::getHeavyHitter(const GndTruth &flow_summary, threshold,
\*                               hh_method)   [g, threw]
GndTruth_getHeavyHitter(g, flow_summary, threshold, hh_method) ==
  IF CalledBefore(g) THEN Returned(CalledOnce(g))
  ELSE IF hh_method = "TopK"
  THEN IF threshold.num < threshold.den THEN Thrown(CalledOnce(g))
       ELSE Returned(PushedBack(CalledOnce(g), flow_summary,
                                Min({Len(flow_summary.right),
                                     ThresholdFloor(threshold)})))
  ELSE IF ~(threshold.num >= 0 /\ threshold.num <= threshold.den)
  THEN Thrown(CalledOnce(g))
  ELSE Returned(PushedBack(
         CalledOnce(g), flow_summary,
         LowerBound(flow_summary.right,
                    ThresholdOf(threshold, flow_summary.tot_value))))

\* A truncation outcome r with the arguments as the call leaves them.
WithArgs(r, flow_summary_1, flow_summary_2) ==
  [g |-> r.g, flow_summary_1 |-> flow_summary_1,
   flow_summary_2 |-> flow_summary_2, threw |-> r.threw]

\* void GndTruth::getHeavyHitter(GndTruth &&flow_summary, threshold,
\*                               hh_method)   [g, flow_summary_1, threw]
GndTruth_getHeavyHitterMove(g, flow_summary, threshold, hh_method) ==
  IF CalledBefore(g)
  THEN WithArgs(Returned(CalledOnce(g)), flow_summary, GndTruth)
  ELSE WithArgs(
         Truncate([CalledOnce(g) EXCEPT !.right = flow_summary.right],
                  threshold, flow_summary.tot_value, hh_method),
         [flow_summary EXCEPT !.right = g.right, !.tot_value = 0],
         GndTruth)

\* The same call with *this for flow_summary, as the record-range variant
\* makes it: my_map is swapped with itself.
GndTruth_getHeavyHitterMoveSelf(g, threshold, hh_method) ==
  IF CalledBefore(g) THEN Returned(CalledOnce(g))
  ELSE Truncate([CalledOnce(g) EXCEPT !.tot_value = 0], threshold,
                g.tot_value, hh_method)

\* called--
Uncalled(g) == [g EXCEPT !.called = @ - 1]

\* void GndTruth::getHeavyHitter(begin, end, cnt_method, threshold,
\*                               hh_method)   [g, threw]
GndTruth_getHeavyHitterRange(g, records, cnt_method, threshold, hh_method) ==
  IF CalledBefore(g) THEN Returned(CalledOnce(g))
  ELSE GndTruth_getHeavyHitterMoveSelf(
         Uncalled(GndTruth_getGroundTruth(Uncalled(CalledOnce(g)), records,
                                          cnt_method)),
         threshold, hh_method)

\* The body of the loop with a signed difference instead of std::abs.
MinusAssignStepSigned(g, kv) ==
  IF LeftCount(g.right, kv.key) > 0
  THEN [g EXCEPT
          !.right = LeftPut(@, kv.key, LeftGet(@, kv.key) - kv.val),
          !.tot_value = @ - kv.val]
  ELSE [g EXCEPT !.right = LeftPut(@, kv.key, kv.val),
                 !.tot_value = @ + kv.val]

\* The body of the loop of operator-= for the relation kv of other.
MinusAssignStep(g, kv) ==
  IF LeftCount(g.right, kv.key) > 0
  THEN [g EXCEPT
          !.right = LeftPut(@, kv.key, Abs(LeftGet(@, kv.key) - kv.val)),
          !.tot_value = @ - LeftGet(g.right, kv.key)
                          + Abs(LeftGet(g.right, kv.key) - kv.val)]
  ELSE [g EXCEPT !.right = LeftPut(@, kv.key, kv.val),
                 !.tot_value = @ + kv.val]

\* The loop of operator-=.  other.my_map is iterated as the unordered left
\* view stores it: order[i] is the position in other.right of the i-th
\* relation visited.
RECURSIVE MinusAssignFrom(_, _, _, _)
MinusAssignFrom(g, other, order, i) ==
  IF i > Len(other.right) THEN g
  ELSE MinusAssignFrom(MinusAssignStep(g, other.right[order[i]]), other,
                       order, i + 1)

\* GndTruth &GndTruth::operator-=(const GndTruth &other)
GndTruth_minusAssign(g, other, order) ==
  Sorted(MinusAssignFrom(g, other, order, 1))

\* The orders in which an unordered view of n relations can be iterated.
IterationOrders(n) ==
  {order \in [1 .. n -> 1 .. n] :
     \A i \in 1 .. n, j \in 1 .. n : i # j => order[i] # order[j]}

\* `int64_t save = tot_value; tot_value = 0;` and the truncation
SaveAndTruncate(g, threshold, method) ==
  Truncate([g EXCEPT !.tot_value = 0], threshold, g.tot_value, method)

\* void GndTruth::getHeavyChanger(const GndTruth &flow_summary_1,
\*     const GndTruth &flow_summary_2, threshold, hc_method)   [g, threw]
GndTruth_getHeavyChanger(g, flow_summary_1, flow_summary_2, threshold, hc_method, order) ==
  IF CalledBefore(g) THEN Returned(CalledOnce(g))
  ELSE SaveAndTruncate(
         GndTruth_minusAssign(
           [CalledOnce(g) EXCEPT !.right = flow_summary_1.right,
                                 !.tot_value = flow_summary_1.tot_value],
           flow_summary_2, order),
         threshold, hc_method)

\* void GndTruth::getHeavyChanger(GndTruth &&flow_summary_1,
\*     GndTruth &&flow_summary_2, threshold, hc_method)
\* [g, flow_summary_1, flow_summary_2, threw]
GndTruth_getHeavyChangerMove(g, flow_summary_1, flow_summary_2, threshold, hc_method, order) ==
  IF CalledBefore(g)
  THEN WithArgs(Returned(CalledOnce(g)), flow_summary_1, flow_summary_2)
  ELSE WithArgs(
         SaveAndTruncate(
           GndTruth_minusAssign(
             [CalledOnce(g) EXCEPT !.right = flow_summary_1.right,
                                   !.tot_value = flow_summary_1.tot_value],
             flow_summary_2, order),
           threshold, hc_method),
         [flow_summary_1 EXCEPT !.right = g.right, !.tot_value = 0],
         flow_summary_2)

\* The loop over the second range of the record-range getHeavyChanger.
RECURSIVE SubtractFrom(_, _, _, _)
SubtractFrom(g, records, cnt_method, i) ==
  IF i > Len(records) THEN g
  ELSE SubtractFrom(
         [g EXCEPT
            !.right = LeftPut(@, records[i].flowkey,
                              LeftGet(@, records[i].flowkey)
                                - CntSize(records[i], cnt_method)),
            !.tot_value = @ - CntSize(records[i], cnt_method)],
         records, cnt_method, i + 1)

\* The loop that flips the negative values, from the i-th relation on.
RECURSIVE FlipFrom(_, _)
FlipFrom(g, i) ==
  IF i > Len(g.right) THEN g
  ELSE IF g.right[i].val < 0
  THEN FlipFrom([g EXCEPT !.right[i].val = -@,
                          !.tot_value = @ + 2 * (-g.right[i].val)], i + 1)
  ELSE FlipFrom(g, i + 1)

\* void GndTruth::getHeavyChanger(begin_1, end_1, begin_2, end_2,
\*     cnt_method, threshold, hc_method)   [g, threw]
GndTruth_getHeavyChangerRange(g, records_1, records_2, cnt_method, threshold, hc_method) ==
  IF CalledBefore(g) THEN Returned(CalledOnce(g))
  ELSE SaveAndTruncate(
         Sorted(FlipFrom(
           SubtractFrom(
             GndTruth_getGroundTruth(Uncalled(CalledOnce(g)), records_1,
                                     cnt_method),
             records_2, cnt_method, 1),
           1)),
         threshold, hc_method)

-----------------------------------------------------------------------------
(* SpecGT: a stream of records, cut in two ranges, and three GndTruth       *)
(* instances: a and b are built from the two ranges by getGroundTruth, r    *)
(* receives the calls under test, a and b being its argument summaries.     *)

\* The flow keys and the lengths of the records of the model; a length
\* outside (0, 1500] is counted with a warning.
GtKeys == {<<0>>, <<1>>}
GtLengths == {-1, 2}
GtRecords == {Record(k, l) : k \in GtKeys, l \in GtLengths}

\* The streams of MaxRecords records.
GtStreams == [1 .. MaxRecords -> GtRecords]

\* The thresholds and methods of the calls.
GtThresholds ==
  {[num |-> 1, den |-> 2], [num |-> 3, den |-> 4], [num |-> 3, den |-> 2]}
CntMethods == {"InLength", "InPacket"}
HXMethods == {"TopK", "Percentile"}

\* gndObs: records, split, cnt_method: the stream, where it is cut and the
\* counting method of every call; op, threshold, method, order, threw: the
\* last call, its arguments, the iteration order it met in operator-= and
\* what it threw; before: gnd before the call.
GndObsInit(records, split, cnt_method) ==
  [records |-> records, split |-> split, cnt_method |-> cnt_method,
   op |-> "init", threshold |-> [num |-> 1, den |-> 2], method |-> "TopK",
   order |-> <<>>, threw |-> "none",
   before |-> [a |-> GndTruth, b |-> GndTruth, r |-> GndTruth]]

GtInit ==
  /\ gnd = [a |-> GndTruth, b |-> GndTruth, r |-> GndTruth]
  /\ \E records \in GtStreams, split \in 0 .. MaxRecords,
        cnt_method \in CntMethods :
       gndObs = GndObsInit(records, split, cnt_method)
  /\ fkey = Idle /\ fkeyObs = Idle
  /\ dynT = Idle /\ dynX = Idle /\ dynLast = Idle
  /\ hier = Idle /\ chObs = Idle /\ thPc = Idle
  /\ sk = Idle /\ skObs = Idle

\* The two record ranges.
Range1 == SubSeq(gndObs.records, 1, gndObs.split)
Range2 == SubSeq(gndObs.records, gndObs.split + 1, Len(gndObs.records))

\* gndObs after the call op on r.  Of a call that found r called before
\* only that much is kept: op is "again".
GndObsAfter(op, threshold, method, order, threw) ==
  IF CalledBefore(gnd.r)
  THEN [gndObs EXCEPT !.op = "again", !.order = <<>>, !.threw = threw,
                      !.before = gnd]
  ELSE [gndObs EXCEPT !.op = op, !.threshold = threshold, !.method = method,
                      !.order = order, !.threw = threw, !.before = gnd]

GtFrame == UNCHANGED <<dynVars, chVars, skVars, fkey, fkeyObs>>

\* a.getGroundTruth(range 1), b.getGroundTruth(range 2): the summaries are
\* built before r is called
GtBuild ==
  /\ gnd.r.called = 0
  /\ \/ /\ gnd.a.called = 0
        /\ gnd' = [gnd EXCEPT !.a = GndTruth_getGroundTruth(
                                      @, Range1, gndObs.cnt_method)]
     \/ /\ gnd.b.called = 0
        /\ gnd' = [gnd EXCEPT !.b = GndTruth_getGroundTruth(
                                      @, Range2, gndObs.cnt_method)]
  /\ gndObs' = [gndObs EXCEPT !.op = "build", !.order = <<>>,
                               !.threw = "none", !.before = gnd]
  /\ GtFrame

\* r.getGroundTruth(range 1)
GtGetGroundTruth ==
  /\ gnd.r.called < MaxCalled
  /\ gnd' = [gnd EXCEPT !.r = GndTruth_getGroundTruth(@, Range1,
                                                      gndObs.cnt_method)]
  /\ gndObs' = GndObsAfter("getGroundTruth", gndObs.threshold,
                           gndObs.method, <<>>, "none")
  /\ GtFrame

\* r.getHeavyHitter(a, threshold, method)
GtGetHeavyHitter ==
  /\ gnd.r.called < MaxCalled
  /\ \E threshold \in GtThresholds, method \in HXMethods :
       \E c \in {GndTruth_getHeavyHitter(gnd.r, gnd.a, threshold, method)} :
         /\ gnd' = [gnd EXCEPT !.r = c.g]
         /\ gndObs' = GndObsAfter("getHeavyHitter", threshold, method, <<>>,
                                  c.threw)
  /\ GtFrame

\* r.getHeavyHitter(std::move(a), threshold, method)
GtGetHeavyHitterMove ==
  /\ gnd.r.called < MaxCalled
  /\ \E threshold \in GtThresholds, method \in HXMethods :
       \E c \in {GndTruth_getHeavyHitterMove(gnd.r, gnd.a, threshold,
                                             method)} :
         /\ gnd' = [gnd EXCEPT !.r = c.g, !.a = c.flow_summary_1]
         /\ gndObs' = GndObsAfter("getHeavyHitterMove", threshold, method,
                                  <<>>, c.threw)
  /\ GtFrame

\* r.getHeavyHitter(range 1, cnt_method, threshold, method)
GtGetHeavyHitterRange ==
  /\ gnd.r.called < MaxCalled
  /\ \E threshold \in GtThresholds, method \in HXMethods :
       \E c \in {GndTruth_getHeavyHitterRange(gnd.r, Range1,
                                              gndObs.cnt_method, threshold,
                                              method)} :
         /\ gnd' = [gnd EXCEPT !.r = c.g]
         /\ gndObs' = GndObsAfter("getHeavyHitterRange", threshold, method,
                                  <<>>, c.threw)
  /\ GtFrame

\* r.getHeavyChanger(a, b, threshold, method)
GtGetHeavyChanger ==
  /\ gnd.r.called < MaxCalled
  /\ \E threshold \in GtThresholds, method \in HXMethods,
        order \in IterationOrders(Len(gnd.b.right)) :
       \E c \in {GndTruth_getHeavyChanger(gnd.r, gnd.a, gnd.b, threshold,
                                          method, order)} :
         /\ gnd' = [gnd EXCEPT !.r = c.g]
         /\ gndObs' = GndObsAfter("getHeavyChanger", threshold, method,
                                  order, c.threw)
  /\ GtFrame

\* r.getHeavyChanger(std::move(a), std::move(b), threshold, method)
GtGetHeavyChangerMove ==
  /\ gnd.r.called < MaxCalled
  /\ \E threshold \in GtThresholds, method \in HXMethods,
        order \in IterationOrders(Len(gnd.b.right)) :
       \E c \in {GndTruth_getHeavyChangerMove(gnd.r, gnd.a, gnd.b,
                                              threshold, method, order)} :
         /\ gnd' = [gnd EXCEPT !.r = c.g, !.a = c.flow_summary_1,
                               !.b = c.flow_summary_2]
         /\ gndObs' = GndObsAfter("getHeavyChangerMove", threshold, method,
                                  order, c.threw)
  /\ GtFrame

\* r.getHeavyChanger(range 1, range 2, cnt_method, threshold, method)
GtGetHeavyChangerRange ==
  /\ gnd.r.called < MaxCalled
  /\ \E threshold \in GtThresholds, method \in HXMethods :
       \E c \in {GndTruth_getHeavyChangerRange(gnd.r, Range1, Range2,
                                               gndObs.cnt_method, threshold,
                                               method)} :
         /\ gnd' = [gnd EXCEPT !.r = c.g]
         /\ gndObs' = GndObsAfter("getHeavyChangerRange", threshold, method,
                                  <<>>, c.threw)
  /\ GtFrame

GtNext ==
  \/ GtBuild \/ GtGetGroundTruth
  \/ GtGetHeavyHitter \/ GtGetHeavyHitterMove \/ GtGetHeavyHitterRange
  \/ GtGetHeavyChanger \/ GtGetHeavyChangerMove \/ GtGetHeavyChangerRange

SpecGT == GtInit /\ [][GtNext]_vars

-----------------------------------------------------------------------------
(* Claims on the ground truth *)

\* What the records of a range count for the key flowkey.
RECURSIVE RangeTotal(_, _, _)
RangeTotal(records, flowkey, cnt_method) ==
  IF records = <<>> THEN 0
  ELSE (IF Head(records).flowkey = flowkey
        THEN CntSize(Head(records), cnt_method) ELSE 0)
       + RangeTotal(Tail(records), flowkey, cnt_method)

RangeKeys(records) == {records[i].flowkey : i \in 1 .. Len(records)}
RightKeys(right) == {right[i].key : i \in 1 .. Len(right)}

\* The right view is in non-increasing order of value.
NonIncreasing(right) ==
  \A i \in 1 .. Len(right) - 1 : right[i].val >= right[i + 1].val

\* The left view of right as a function from the keys to the values.
LeftView(right) == [k \in RightKeys(right) |-> LeftGet(right, k)]

\* g is the ground truth of the records: one relation for each key of the
\* range, its value the total of the key, in non-increasing order, and
\* tot_value the sum of the values.
IsGroundTruth(g, records, cnt_method) ==
  /\ NonIncreasing(g.right)
  /\ RightKeys(g.right) = RangeKeys(records)
  /\ Len(g.right) = Cardinality(RangeKeys(records))
  /\ \A i \in 1 .. Len(g.right) :
       g.right[i].val = RangeTotal(records, g.right[i].key, cnt_method)
  /\ g.tot_value = RightSum(g.right)

\* C11: ground truth.  After getGroundTruth over a record range, with
\* either counting method, on an instance not called before, the right
\* view is in non-increasing order of value, each key of the range has the
\* sum of its records' lengths (InLength) or the number of its records
\* (InPacket), and totalValue() is the sum of the values of the right view.
C11_GroundTruthSortedAndSummed ==
  /\ (gndObs.op = "build" /\ gnd.a # gndObs.before.a) =>
       IsGroundTruth(gnd.a, Range1, gndObs.cnt_method)
  /\ (gndObs.op = "build" /\ gnd.b # gndObs.before.b) =>
       IsGroundTruth(gnd.b, Range2, gndObs.cnt_method)
  /\ gndObs.op = "getGroundTruth" =>
       IsGroundTruth(gnd.r, Range1, gndObs.cnt_method)

\* A getGroundTruth by length over two records of two flows, the second
\* record being the larger: the sort has put its flow first.
C11_Witness ==
  /\ gndObs.op = "getGroundTruth" /\ gndObs.cnt_method = "InLength"
  /\ Len(Range1) = 2 /\ Len(gnd.r.right) = 2
  /\ gnd.r.right[1].key = Range1[2].flowkey
  /\ gnd.r.right[1].val > gnd.r.right[2].val
  /\ gnd.r.tot_value = gnd.r.right[1].val + gnd.r.right[2].val

\* The relations of a right view as a set.
Relations(right) == {right[i] : i \in 1 .. Len(right)}

\* The largest integer that is at most num / den.
FloorOf(threshold) ==
  CHOOSE n \in 0 .. threshold.num :
    n * threshold.den <= threshold.num /\ threshold.num < (n + 1) * threshold.den

\* The summary that the last heavy-hitter call on r was given: a, or the
\* ground truth of range 1 for the record-range variant.
HitterSummary ==
  IF gndObs.op = "getHeavyHitterRange"
  THEN GndTruth_getGroundTruth(GndTruth, Range1, gndObs.cnt_method)
  ELSE gndObs.before.a

HitterOps == {"getHeavyHitter", "getHeavyHitterMove", "getHeavyHitterRange"}
ChangerOps ==
  {"getHeavyChanger", "getHeavyChangerMove", "getHeavyChangerRange"}

\* g holds the first no entries of some non-increasing order of the
\* relations rels, and their sum.
IsTopOf(g, rels, no) ==
  /\ Len(g.right) = no
  /\ Relations(g.right) \subseteq rels
  /\ Cardinality(RightKeys(g.right)) = no
  /\ \A e \in Relations(g.right), x \in rels \ Relations(g.right) :
       e.val >= x.val
  /\ NonIncreasing(g.right)
  /\ g.tot_value = RightSum(g.right)

IsAboveOf(g, rels, threshold, total) ==
  /\ Relations(g.right) =
       {e \in rels : e.val * threshold.den > threshold.num * total}
  /\ Len(g.right) = Cardinality(Relations(g.right))
  /\ NonIncreasing(g.right)
  /\ g.tot_value = RightSum(g.right)

PercentileHitter ==
  /\ gndObs.op \in HitterOps /\ gndObs.method = "Percentile"
  /\ gndObs.threshold.num <= gndObs.threshold.den

\* C13: heavy hitters with Percentile.  A getHeavyHitter call with method
\* Percentile and t in [0, 1], on an instance not called before, keeps
\* exactly the flows of the summary whose value is strictly greater than
\* t * summary.totalValue(), in non-increasing order, and totalValue is the
\* sum of the kept values.
C13_PercentileHeavyHitter ==
  PercentileHitter =>
    /\ gndObs.threw = "none"
    /\ IsAboveOf(gnd.r, Relations(HitterSummary.right), gndObs.threshold,
                 HitterSummary.tot_value)

\* The same for summaries whose total is not negative, where the conversion
\* of t * total to T rounds down.
C13_PercentileHeavyHitterNonNegative ==
  (PercentileHitter /\ HitterSummary.tot_value >= 0) =>
    /\ gndObs.threw = "none"
    /\ IsAboveOf(gnd.r, Relations(HitterSummary.right), gndObs.threshold,
                 HitterSummary.tot_value)

\* A Percentile call on a summary of two flows and a positive total that
\* keeps one of them.
C13_Witness ==
  /\ PercentileHitter
  /\ Len(HitterSummary.right) = 2
  /\ HitterSummary.tot_value > 0
  /\ Len(gnd.r.right) = 1

\* A Percentile call on a summary with a negative total.
C13_WitnessNegative ==
  /\ PercentileHitter
  /\ Len(HitterSummary.right) = 2
  /\ HitterSummary.tot_value < 0
  /\ gnd.r.right = <<>>

\* The two summaries that the last heavy-changer call on r was given: a and
\* b, or the ground truths of the two ranges for the record-range variant.
ChangerSummary1 ==
  IF gndObs.op = "getHeavyChangerRange"
  THEN GndTruth_getGroundTruth(GndTruth, Range1, gndObs.cnt_method)
  ELSE gndObs.before.a

ChangerSummary2 ==
  IF gndObs.op = "getHeavyChangerRange"
  THEN GndTruth_getGroundTruth(GndTruth, Range2, gndObs.cnt_method)
  ELSE gndObs.before.b

\* The value of key in a right view, 0 for a missing key.
ValueAt(right, key) ==
  IF LeftCount(right, key) > 0 THEN LeftGet(right, key) ELSE 0

\* D[k] = |A[k] - B[k]| over the union of the keys of A and B.
Changes(A, B) ==
  {[key |-> k, val |-> Abs(ValueAt(A.right, k) - ValueAt(B.right, k))] :
     k \in RightKeys(A.right) \cup RightKeys(B.right)}

RECURSIVE RelationsSum(_)
RelationsSum(rels) ==
  IF rels = {} THEN 0
  ELSE LET e == CHOOSE x \in rels : TRUE
       IN  e.val + RelationsSum(rels \ {e})

ValidThreshold(threshold, method) ==
  IF method = "TopK" THEN threshold.num >= threshold.den
  ELSE threshold.num <= threshold.den

\* g is the policy applied to the relations rels with their sum as the
\* Percentile base.
IsPolicyOf(g, rels, threshold, method) ==
  IF method = "TopK"
  THEN IsTopOf(g, rels, Min({FloorOf(threshold), Cardinality(rels)}))
  ELSE IsAboveOf(g, rels, threshold, RelationsSum(rels))

NonNegative(g) == \A i \in 1 .. Len(g.right) : g.right[i].val >= 0

\* C14: heavy changers.  A getHeavyChanger call with a valid threshold, on
\* an instance not called before, leaves the policy applied to the map D
\* over the union of the keys of A and B with D[k] = |A[k] - B[k]| (0 for a
\* key missing on a side), in non-increasing order, with the sum of D as
\* the Percentile base.
C14_HeavyChanger ==
  (/\ gndObs.op \in ChangerOps
   /\ ValidThreshold(gndObs.threshold, gndObs.method)) =>
    /\ gndObs.threw = "none"
    /\ IsPolicyOf(gnd.r, Changes(ChangerSummary1, ChangerSummary2),
                  gndObs.threshold, gndObs.method)

\* The same for summaries without negative values.
C14_HeavyChangerNonNegative ==
  (/\ gndObs.op \in ChangerOps
   /\ ValidThreshold(gndObs.threshold, gndObs.method)
   /\ NonNegative(ChangerSummary1) /\ NonNegative(ChangerSummary2)) =>
    /\ gndObs.threw = "none"
    /\ IsPolicyOf(gnd.r, Changes(ChangerSummary1, ChangerSummary2),
                  gndObs.threshold, gndObs.method)

\* A copying call on a summary with a negative value for a key the other
\* summary does not have: the value is kept as it is.
C14_WitnessNegative ==
  /\ gndObs.op = "getHeavyChanger" /\ gndObs.method = "TopK"
  /\ gndObs.threshold = [num |-> 3, den |-> 2]
  /\ \E i \in 1 .. Len(gndObs.before.a.right) :
       /\ gndObs.before.a.right[i].val < 0
       /\ LeftCount(gndObs.before.b.right, gndObs.before.a.right[i].key) = 0
  /\ Len(gnd.r.right) = 1

\* A copying call on two summaries that share a key, without negative
\* values.
C14_Witness ==
  /\ gndObs.op = "getHeavyChanger"
  /\ ValidThreshold(gndObs.threshold, gndObs.method)
  /\ NonNegative(gndObs.before.a) /\ NonNegative(gndObs.before.b)
  /\ RightKeys(gndObs.before.a.right) \cap RightKeys(gndObs.before.b.right) # {}
  /\ Len(gnd.r.right) = 1

SummaryChangerOps == {"getHeavyChanger", "getHeavyChangerMove"}

\* The values of a right view, in its order.
RightValues(right) == [i \in 1 .. Len(right) |-> right[i].val]

\* What the last heavy-changer call would have left with its two summaries
\* exchanged, for the iteration order `order` of the first summary.
Exchanged(order) ==
  GndTruth_getHeavyChanger(GndTruth, gndObs.before.b, gndObs.before.a,
                           gndObs.threshold, gndObs.method, order)

ExchangedOrders == IterationOrders(Len(gndObs.before.a.right))

\* The whole difference map of the last heavy-changer call, before the
\* policy was applied.
WholeChange ==
  Relations(GndTruth_minusAssign(gndObs.before.a, gndObs.before.b,
                                 gndObs.order).right)

\* No flow left out has the same value as a flow kept.
NoTieAtCut ==
  \A e \in Relations(gnd.r.right), x \in WholeChange \ Relations(gnd.r.right) :
    x.val # e.val

\* C15 as stated: a getHeavyChanger call from two summaries leaves the same
\* set of keys with the same values and the same totalValue as the call with
\* the two summaries exchanged, for any threshold and either policy.
C15_Symmetric ==
  (gndObs.op \in SummaryChangerOps /\ gndObs.threw = "none") =>
    \A order \in ExchangedOrders :
      /\ Relations(Exchanged(order).g.right) = Relations(gnd.r.right)
      /\ Exchanged(order).g.tot_value = gnd.r.tot_value

\* C15, amended: HC(A,B) and HC(B,A) fail for the same thresholds and
\* otherwise hold the same values in the same order and the same
\* totalValue; they hold the same keys with the same values under
\* Percentile, and under TopK whenever no flow left out ties with a flow
\* kept.
C15_SymmetricUpToTies ==
  gndObs.op \in SummaryChangerOps =>
    \A order \in ExchangedOrders :
      /\ Exchanged(order).threw = gndObs.threw
      /\ RightValues(Exchanged(order).g.right) = RightValues(gnd.r.right)
      /\ Exchanged(order).g.tot_value = gnd.r.tot_value
      /\ (gndObs.method = "Percentile" \/ NoTieAtCut) =>
           Relations(Exchanged(order).g.right) = Relations(gnd.r.right)

\* A TopK call on two different non-empty summaries that keeps one flow and
\* leaves out another of a different value.
C15_Witness ==
  /\ gndObs.op = "getHeavyChanger" /\ gndObs.method = "TopK"
  /\ gndObs.threw = "none"
  /\ gndObs.before.a.right # <<>> /\ gndObs.before.b.right # <<>>
  /\ gndObs.before.a.right # gndObs.before.b.right
  /\ Len(gnd.r.right) = 1
  /\ Cardinality(WholeChange) = 2
  /\ NoTieAtCut

\* What the copying getHeavyHitter leaves from the ground truth of range 1.
HitterFromSummary ==
  GndTruth_getHeavyHitter(GndTruth, HitterSummary, gndObs.threshold,
                          gndObs.method)

\* What the copying getHeavyChanger leaves from the ground truths of the two
\* ranges, for the iteration order `order` of the second.
ChangerFromSummaries(order) ==
  GndTruth_getHeavyChanger(GndTruth, ChangerSummary1, ChangerSummary2,
                           gndObs.threshold, gndObs.method, order)

ChangerOrders == IterationOrders(Len(ChangerSummary2.right))

NoTieAtCutOfRanges ==
  \A e \in Relations(gnd.r.right),
     x \in Changes(ChangerSummary1, ChangerSummary2) \ Relations(gnd.r.right) :
    x.val # e.val

\* C16: the record-range variants of getHeavyHitter and getHeavyChanger
\* leave the same key-to-value entries and the same totalValue as building
\* the ground truth of each range with getGroundTruth and calling the
\* flow-summary variant with the same threshold and policy.
C16_RangeEqualsSummary ==
  /\ (gndObs.op = "getHeavyHitterRange" /\ gndObs.threw = "none") =>
       /\ HitterFromSummary.threw = "none"
       /\ Relations(HitterFromSummary.g.right) = Relations(gnd.r.right)
       /\ HitterFromSummary.g.tot_value = gnd.r.tot_value
  /\ (gndObs.op = "getHeavyChangerRange" /\ gndObs.threw = "none") =>
       \A order \in ChangerOrders :
         /\ ChangerFromSummaries(order).threw = "none"
         /\ Relations(ChangerFromSummaries(order).g.right) =
              Relations(gnd.r.right)
         /\ ChangerFromSummaries(order).g.tot_value = gnd.r.tot_value

\* What does hold: the heavy-hitter variants always agree, entry by entry;
\* the heavy-changer variants agree on the values and on totalValue when
\* neither range sums to a negative value for a flow, and then on the keys
\* under Percentile or when no flow left out ties with a flow kept.
C16_RangeEqualsSummaryNonNegative ==
  /\ gndObs.op = "getHeavyHitterRange" =>
       /\ HitterFromSummary.threw = gndObs.threw
       /\ gndObs.threw = "none" =>
            /\ HitterFromSummary.g.right = gnd.r.right
            /\ HitterFromSummary.g.tot_value = gnd.r.tot_value
  /\ (/\ gndObs.op = "getHeavyChangerRange" /\ gndObs.threw = "none"
      /\ NonNegative(ChangerSummary1) /\ NonNegative(ChangerSummary2)) =>
       \A order \in ChangerOrders :
         /\ ChangerFromSummaries(order).threw = "none"
         /\ RightValues(ChangerFromSummaries(order).g.right) =
              RightValues(gnd.r.right)
         /\ ChangerFromSummaries(order).g.tot_value = gnd.r.tot_value
         /\ (gndObs.method = "Percentile" \/ NoTieAtCutOfRanges) =>
              Relations(ChangerFromSummaries(order).g.right) =
                Relations(gnd.r.right)

\* A record-range heavy-changer call whose second range has a negative sum
\* for a flow that the first range does not have: the flow is kept with the
\* value flipped.
C16_WitnessNegative ==
  /\ gndObs.op = "getHeavyChangerRange" /\ gndObs.threw = "none"
  /\ \E i \in 1 .. Len(ChangerSummary2.right) :
       /\ ChangerSummary2.right[i].val < 0
       /\ LeftCount(ChangerSummary1.right, ChangerSummary2.right[i].key) = 0
       /\ [key |-> ChangerSummary2.right[i].key,
           val |-> 0 - ChangerSummary2.right[i].val] \in Relations(gnd.r.right)

\* The last step was a constructor-like call on r, which had been called
\* before.
SecondCall ==
  /\ gndObs.op \notin {"init", "build"}
  /\ gndObs.before.r.called >= 1

\* C17: once-only construction.  A constructor-like call (getGroundTruth,
\* any getHeavyHitter variant, any getHeavyChanger variant) on an instance
\* called before changes nothing, whatever its arguments: the instance's
\* entries, their order and totalValue are as before, and so are the
\* argument summaries.
C17_SecondCallIsNoOp ==
  SecondCall =>
    /\ gnd.r.right = gndObs.before.r.right
    /\ gnd.r.tot_value = gndObs.before.r.tot_value
    /\ gnd.a = gndObs.before.a
    /\ gnd.b = gndObs.before.b
    /\ gndObs.threw = "none"

\* A second call on a non-empty instance, with a non-empty argument summary
\* that a first call would have used.
C17_Witness ==
  /\ SecondCall
  /\ gnd.r.called = 2
  /\ gnd.r.right # <<>>
  /\ gnd.a.right # <<>>
  /\ gnd.r.right # gnd.a.right

\* The last step was a first getHeavyHitter / getHeavyChanger call on r with
\* a threshold outside the legal range of its policy.
InvalidCall ==
  /\ gndObs.op \in HitterOps \cup ChangerOps
  /\ gndObs.before.r.called = 0
  /\ ~ValidThreshold(gndObs.threshold, gndObs.method)

\* C18: a getHeavyHitter / getHeavyChanger call with a threshold outside the
\* legal range of its policy fails with invalid_argument and leaves the
\* receiving instance as it was before the call (empty, sum 0) and every
\* argument summary unchanged, in every variant.
C18_InvalidThresholdLeavesUnchanged ==
  InvalidCall =>
    /\ gndObs.threw = "invalid_argument"
    /\ gnd.r.right = <<>>
    /\ gnd.r.tot_value = 0
    /\ gnd.a = gndObs.before.a
    /\ gnd.b = gndObs.before.b

\* What does hold: every such call fails with invalid_argument, a call with
\* a legal threshold does not fail, and the copying getHeavyHitter leaves
\* the receiver empty; the copying and record-range variants leave the
\* argument summaries unchanged.
C18_InvalidThresholdThrows ==
  /\ InvalidCall =>
       /\ gndObs.threw = "invalid_argument"
       /\ gndObs.op = "getHeavyHitter" =>
            gnd.r.right = <<>> /\ gnd.r.tot_value = 0
       /\ gndObs.op \notin {"getHeavyHitterMove", "getHeavyChangerMove"} =>
            gnd.a = gndObs.before.a /\ gnd.b = gndObs.before.b
  /\ (/\ gndObs.op \in HitterOps \cup ChangerOps
      /\ gndObs.before.r.called = 0
      /\ ValidThreshold(gndObs.threshold, gndObs.method)) =>
       gndObs.threw = "none"

\* A failed moving getHeavyHitter that left the entries of the argument in
\* the receiver and the argument empty with sum 0.
C18_WitnessMoved ==
  /\ InvalidCall /\ gndObs.op = "getHeavyHitterMove"
  /\ gndObs.threw = "invalid_argument"
  /\ gndObs.before.a.right # <<>>
  /\ gnd.r.right = gndObs.before.a.right
  /\ gnd.r.tot_value = 0
  /\ gnd.a.right = <<>> /\ gnd.a.tot_value = 0

-----------------------------------------------------------------------------
(* FlowKey<key_len>: bit access and copy                                    *)

\* A key is the sequence of its bytes, key_[i] at index i + 1, each byte as
\* its bit pattern 0 .. 255.

\* #define BYTE(n) ((n) >> 3), an arithmetic shift
BYTE(n) == n \div 8
\* #define BIT(n) ((n)&7)
BIT(n) == n % 8

\* The outcomes of a call: the key after it, the value returned, the error
\* thrown, und = the call had undefined behaviour.
FlowKeyReturned(key, ret) ==
  [key |-> key, ret |-> ret, threw |-> "none", und |-> FALSE]
FlowKeyOutOfRange(key) ==
  [key |-> key, ret |-> 0, threw |-> "out_of_range", und |-> FALSE]
FlowKeyUndefined(key, ret, threw) ==
  [key |-> key, ret |-> ret, threw |-> threw, und |-> TRUE]

BitOf(byte, bit) == (byte \div (2 ^ bit)) % 2

\* int8_t FlowKey::getBit(int32_t pos) const.  The only test is
\* BYTE(pos) >= key_len; a negative pos reads key_[BYTE(pos)] in front of
\* the array, which yields any bit.
FlowKey_getBit(key, pos) ==
  IF BYTE(pos) >= Len(key) THEN {FlowKeyOutOfRange(key)}
  ELSE IF BYTE(pos) < 0
       THEN {FlowKeyUndefined(key, bit, "none") : bit \in {0, 1}}
       ELSE {FlowKeyReturned(key, BitOf(key[BYTE(pos) + 1], BIT(pos)))}

\* key_[BYTE(pos)] |= (1 << BIT(pos)) or &= ~(1 << BIT(pos))
WithBit(byte, bit, one) ==
  IF one THEN (IF BitOf(byte, bit) = 1 THEN byte ELSE byte + 2 ^ bit)
  ELSE (IF BitOf(byte, bit) = 1 THEN byte - 2 ^ bit ELSE byte)

\* void FlowKey::setBit(int32_t pos, bool one).  A negative pos writes the
\* byte key_[BYTE(pos)] in front of the array: the key's own bytes stay.
FlowKey_setBit(key, pos, one) ==
  IF BYTE(pos) >= Len(key) THEN {FlowKeyOutOfRange(key)}
  ELSE IF BYTE(pos) < 0
       THEN {FlowKeyUndefined(key, 0, "none")}
       ELSE {FlowKeyReturned(
               [key EXCEPT ![BYTE(pos) + 1] = WithBit(@, BIT(pos), one)], 0)}

\* std::copy(o_key + o_pos, o_key + o_pos + len, key_ + pos)
CopiedInto(key, pos, other_key, o_pos, len) ==
  [i \in 1 .. Len(key) |->
     IF pos < i /\ i <= pos + len THEN other_key[o_pos + (i - pos)]
     ELSE key[i]]

\* FlowKey &FlowKey::copy(pos, const FlowKey<other_len> &other_key, o_pos,
\* len).  A negative len that passes both tests hands std::copy a range
\* whose end is before its start: nothing is copied, or the process dies.
FlowKey_copy(key, pos, other_key, o_pos, len) ==
  IF pos < 0 \/ pos + len > Len(key) THEN {FlowKeyOutOfRange(key)}
  ELSE IF o_pos < 0 \/ o_pos + len > Len(other_key)
       THEN {FlowKeyOutOfRange(key)}
       ELSE IF len < 0
            THEN {FlowKeyUndefined(key, 0, "none"),
                  FlowKeyUndefined(key, 0, "crash")}
            ELSE {FlowKeyReturned(
                    CopiedInto(key, pos, other_key, o_pos, len), 0)}

\* The key copied from: bytes 129, 130, ...
FkOther == [i \in 1 .. OtherLen |-> 128 + i]

\* Bit positions and byte ranges around the ends of the keys.
FkBitPositions == {-1, 0, 8 * KeyLen - 1, 8 * KeyLen}
FkPositions == {-1, 0, KeyLen - 1, KeyLen}
FkOtherPositions == {-1, 0, OtherLen - 1}
FkLengths == {-1, 1, 2}

FkObsInit ==
  [op |-> "init", pos |-> 0, one |-> FALSE, o_pos |-> 0, len |-> 0,
   ret |-> 0, threw |-> "none", und |-> FALSE, before |-> ZeroKey(KeyLen)]

\* FlowKey(): an all-zero flow key
FkInit ==
  /\ fkey = ZeroKey(KeyLen)
  /\ fkeyObs = FkObsInit
  /\ dynT = Idle /\ dynX = Idle /\ dynLast = Idle
  /\ hier = Idle /\ chObs = Idle /\ thPc = Idle
  /\ sk = Idle /\ skObs = Idle
  /\ gnd = Idle /\ gndObs = Idle

FkObsAfter(op, pos, one, o_pos, len, c) ==
  [op |-> op, pos |-> pos, one |-> one, o_pos |-> o_pos, len |-> len,
   ret |-> c.ret, threw |-> c.threw, und |-> c.und, before |-> fkey]

FkFrame == UNCHANGED <<dynVars, chVars, skVars, gnd, gndObs>>

\* A process that died makes no further call.
FkAlive == fkeyObs.threw # "crash"

FkGetBit ==
  /\ FkAlive
  /\ \E pos \in FkBitPositions :
       \E c \in FlowKey_getBit(fkey, pos) :
         /\ fkey' = c.key
         /\ fkeyObs' = FkObsAfter("getBit", pos, FALSE, 0, 0, c)
  /\ FkFrame

FkSetBit ==
  /\ FkAlive
  /\ \E pos \in FkBitPositions, one \in BOOLEAN :
       \E c \in FlowKey_setBit(fkey, pos, one) :
         /\ fkey' = c.key
         /\ fkeyObs' = FkObsAfter("setBit", pos, one, 0, 0, c)
  /\ FkFrame

FkCopy ==
  /\ FkAlive
  /\ \E pos \in FkPositions, o_pos \in FkOtherPositions, len \in FkLengths :
       \E c \in FlowKey_copy(fkey, pos, FkOther, o_pos, len) :
         /\ fkey' = c.key
         /\ fkeyObs' = FkObsAfter("copy", pos, FALSE, o_pos, len, c)
  /\ FkFrame

FkNext == FkGetBit \/ FkSetBit \/ FkCopy

SpecFK == FkInit /\ [][FkNext]_vars

\* The last call failed with an out-of-range error and left the key as it
\* was.
FkRejected ==
  /\ fkeyObs.threw = "out_of_range"
  /\ fkey = fkeyObs.before

\* The byte range [pos, pos + len) does not lie inside a key of n bytes.
NotInside(pos, len, n) == len > 0 /\ (pos < 0 \/ pos + len > n)

\* C19: flow key accessors are bounds-checked.  getBit(pos) and
\* setBit(pos, b) with pos outside [0, 8 * key_len), and copy(pos, src,
\* o_pos, len) whose destination range [pos, pos + len) or source range
\* [o_pos, o_pos + len) does not lie inside the respective key, fail with
\* an out-of-range error and leave the key unchanged.
C19_AccessorsBoundsChecked ==
  /\ (/\ fkeyObs.op \in {"getBit", "setBit"}
      /\ (fkeyObs.pos < 0 \/ fkeyObs.pos >= 8 * KeyLen)) => FkRejected
  /\ (/\ fkeyObs.op = "copy"
      /\ \/ NotInside(fkeyObs.pos, fkeyObs.len, KeyLen)
         \/ NotInside(fkeyObs.o_pos, fkeyObs.len, OtherLen)) => FkRejected

\* What does hold: the upper bound of getBit and setBit and both bounds of
\* both ranges of copy are checked, and no call that stays inside the keys
\* fails.
C19_AccessorsUpperBoundsChecked ==
  /\ (/\ fkeyObs.op \in {"getBit", "setBit"}
      /\ fkeyObs.pos >= 8 * KeyLen) => FkRejected
  /\ (/\ fkeyObs.op = "copy"
      /\ \/ NotInside(fkeyObs.pos, fkeyObs.len, KeyLen)
         \/ NotInside(fkeyObs.o_pos, fkeyObs.len, OtherLen)) => FkRejected
  /\ (/\ fkeyObs.op \in {"getBit", "setBit"}
      /\ fkeyObs.pos >= 0 /\ fkeyObs.pos < 8 * KeyLen) =>
       fkeyObs.threw = "none" /\ ~fkeyObs.und
  /\ (/\ fkeyObs.op = "copy" /\ fkeyObs.len > 0
      /\ ~NotInside(fkeyObs.pos, fkeyObs.len, KeyLen)
      /\ ~NotInside(fkeyObs.o_pos, fkeyObs.len, OtherLen)) =>
       fkeyObs.threw = "none" /\ ~fkeyObs.und
  /\ fkeyObs.op = "getBit" => fkey = fkeyObs.before

\* setBit(-1, true) on a key returned without an error.
C19_WitnessNegative ==
  /\ fkeyObs.op = "setBit" /\ fkeyObs.pos = -1 /\ fkeyObs.one
  /\ fkeyObs.threw = "none"
  /\ fkeyObs.und

\* A copy whose source range ends behind the source key was rejected, on a
\* key that an earlier call had changed.
C19_WitnessCopy ==
  /\ fkeyObs.op = "copy"
  /\ fkeyObs.pos = 0 /\ fkeyObs.o_pos = OtherLen - 1 /\ fkeyObs.len = 2
  /\ FkRejected
  /\ fkey # ZeroKey(KeyLen)

-----------------------------------------------------------------------------
(* The flush step of the counter hierarchy *)

\* The counters of a layer that returned a carry or a borrow in the flush
\* that log records.
Carriers(log, layer) ==
  {k \in DOMAIN log :
     log[k].layer = layer /\ ~log[k].threw /\ log[k].overflow # 0}

\* The number of hash functions of a layer that send idx to the counter u
\* of the next layer.
HashesTo(ch, layer, idx, u) ==
  Cardinality({i \in 0 .. ch.no_hash[layer] - 1 :
                 UpperIndex(ch, layer, i, idx) = u})

RECURSIVE CarriedTo(_, _, _, _, _)
\* The sum, over the counters ks of a layer, of the carry times the number
\* of hash functions that send the counter to u.
CarriedTo(ch, log, layer, u, ks) ==
  IF ks = {} THEN 0
  ELSE LET k == CHOOSE x \in ks : TRUE
       IN  log[k].overflow * HashesTo(ch, layer, log[k].idx, u)
             + CarriedTo(ch, log, layer, u, ks \ {k})

\* The counters of the next layer that some carry of a layer is sent to.
Receivers(ch, log, layer) ==
  {UpperIndex(ch, layer, i, log[k].idx) :
     i \in 0 .. ch.no_hash[layer] - 1, k \in Carriers(log, layer)}

\* Every counter of layer + 1 that the flush visited is a receiver and was
\* given the sum of the carries sent to it; a flush that did not throw
\* visited every receiver.
Propagated(ch, log, layer, threw) ==
  /\ \A k \in DOMAIN log :
       log[k].layer = layer + 1 =>
         /\ log[k].idx \in Receivers(ch, log, layer)
         /\ log[k].val =
              CarriedTo(ch, log, layer, log[k].idx, Carriers(log, layer))
  /\ threw = "none" =>
       \A u \in Receivers(ch, log, layer) :
         \E k \in DOMAIN log : log[k].layer = layer + 1 /\ log[k].idx = u

\* The status bits of the counters that the flush visited: set where the
\* counter returned a carry, as before the flush where it returned none.
Marked(before, after, log) ==
  \A k \in DOMAIN log :
    ~log[k].threw =>
      after.status_bits[log[k].layer][log[k].idx] =
        (log[k].overflow # 0
           \/ before.status_bits[log[k].layer][log[k].idx])

\* A status bit that is set stays set.
StaysSet(before, after) ==
  \A l \in DOMAIN before.status_bits :
    \A i \in DOMAIN before.status_bits[l] :
      before.status_bits[l][i] => after.status_bits[l][i]

\* C20: the flush step.  When a pending delta applied to counter idx of
\* layer L yields a carry c # 0, the status bit (L, idx) is set, and it
\* stays set until clear(); for L < n - 1 the carry is added to the next
\* layer's update map at hash_k(idx) mod m_{L+1} for each of the h_L hash
\* functions, equal indices accumulating.  When c = 0 nothing is propagated
\* and the status bit is left as it was.
C20_FlushStep ==
  [][/\ chObs'.op # "clear" => StaysSet(hier, hier')
     /\ chObs'.op = "getCnt" =>
          /\ Marked(hier, hier', chObs'.log)
          /\ \A l \in 0 .. hier.no_layer - 2 :
               Propagated(hier, chObs'.log, l, chObs'.threw)]_vars

\* A flush of a two-layer hierarchy whose two hash functions send counter 0
\* to the same counter of layer 1, which was given twice the carry; the
\* status bit of counter 0 is set and that of the other visited counter of
\* layer 0, which returned no carry, is not.
C20_Witness ==
  /\ chObs.op = "getCnt" /\ chObs.flushed /\ hier.no_layer = 2
  /\ UpperIndex(hier, 0, 0, 0) = UpperIndex(hier, 0, 1, 0)
  /\ \E k, j, n \in DOMAIN chObs.log :
       /\ chObs.log[k].layer = 0 /\ chObs.log[k].idx = 0
       /\ chObs.log[k].overflow # 0
       /\ chObs.log[j].layer = 1
       /\ chObs.log[j].val = 2 * chObs.log[k].overflow
       /\ chObs.log[n].layer = 0 /\ chObs.log[n].idx = 1
       /\ chObs.log[n].overflow = 0 /\ ~chObs.log[n].threw
  /\ hier.status_bits[0][0]
  /\ ~hier.status_bits[0][1]

-----------------------------------------------------------------------------
(* Sketch::HashPipe<key_len, T, hash_t>: [depth, width, hash_fns, slots],   *)
(* slots[i][j] an Entry [flowkey, val].                                     *)

\* Entry(): the all-zero flow key and the value 0
Entry(key_len) == [flowkey |-> ZeroKey(key_len), val |-> 0]

\* HashPipe(int32_t depth_, int32_t width_), key_len = 1
HashPipe(depth, width, hash_fns) ==
  [depth |-> depth, width |-> NextPrime(width), hash_fns |-> hash_fns,
   slots |-> [i \in 0 .. depth - 1 |->
                [j \in 0 .. NextPrime(width) - 1 |-> Entry(1)]]]

\* hash_fns[i](flowkey) % width
HashPipeIdx(hp, i, key) == HashKey(hp.hash_fns[i], key) % hp.width

\* A variant of the later stages that swaps also on a tie (mutant).
RECURSIVE HashPipeLaterOnTie(_, _, _, _)
HashPipeLaterOnTie(hp, c_key, c_val, i) ==
  IF i >= hp.depth THEN hp
  ELSE
    LET idx == HashPipeIdx(hp, i, c_key)
        slot == hp.slots[i][idx]
    IN  IF slot.flowkey = c_key
        THEN [hp EXCEPT !.slots[i][idx].val = @ + c_val]
        ELSE IF slot.flowkey = ZeroKey(Len(c_key))
        THEN [hp EXCEPT !.slots[i][idx] = [flowkey |-> c_key, val |-> c_val]]
        ELSE IF slot.val <= c_val
        THEN HashPipeLaterOnTie(
               [hp EXCEPT !.slots[i][idx] =
                            [flowkey |-> c_key, val |-> c_val]],
               slot.flowkey, slot.val, i + 1)
        ELSE HashPipeLaterOnTie(hp, c_key, c_val, i + 1)

\* The loop of update over the later stages, from stage i on, carrying
\* (c_key, c_val).
RECURSIVE HashPipeLater(_, _, _, _)
HashPipeLater(hp, c_key, c_val, i) ==
  IF i >= hp.depth THEN hp
  ELSE
    LET idx == HashPipeIdx(hp, i, c_key)
        slot == hp.slots[i][idx]
    IN  IF slot.flowkey = c_key
        THEN [hp EXCEPT !.slots[i][idx].val = @ + c_val]
        ELSE IF slot.flowkey = ZeroKey(Len(c_key))
        THEN [hp EXCEPT !.slots[i][idx] = [flowkey |-> c_key, val |-> c_val]]
        ELSE IF slot.val < c_val
        THEN HashPipeLater(
               [hp EXCEPT !.slots[i][idx] =
                            [flowkey |-> c_key, val |-> c_val]],
               slot.flowkey, slot.val, i + 1)
        ELSE HashPipeLater(hp, c_key, c_val, i + 1)

\* A variant of update in which a key that replaces the occupant of stage 0
\* also keeps the occupant's value (mutant).
HashPipe_updateInherit(hp, flowkey, val) ==
  LET idx == HashPipeIdx(hp, 0, flowkey)
      slot == hp.slots[0][idx]
  IN  IF slot.flowkey = flowkey
      THEN [hp EXCEPT !.slots[0][idx].val = @ + val]
      ELSE IF slot.flowkey = ZeroKey(Len(flowkey))
      THEN [hp EXCEPT !.slots[0][idx] = [flowkey |-> flowkey, val |-> val]]
      ELSE HashPipeLater(
             [hp EXCEPT !.slots[0][idx] =
                          [flowkey |-> flowkey, val |-> slot.val + val]],
             slot.flowkey, slot.val, 1)

\* void HashPipe::update(const FlowKey<key_len> &flowkey, T val)
HashPipe_update(hp, flowkey, val) ==
  LET idx == HashPipeIdx(hp, 0, flowkey)
      slot == hp.slots[0][idx]
  IN  IF slot.flowkey = flowkey
      THEN [hp EXCEPT !.slots[0][idx].val = @ + val]
      ELSE IF slot.flowkey = ZeroKey(Len(flowkey))
      THEN [hp EXCEPT !.slots[0][idx] = [flowkey |-> flowkey, val |-> val]]
      ELSE HashPipeLater(
             [hp EXCEPT !.slots[0][idx] = [flowkey |-> flowkey, val |-> val]],
             slot.flowkey, slot.val, 1)

\* The loop of query from stage i on.
RECURSIVE HashPipeQueryFrom(_, _, _, _)
HashPipeQueryFrom(hp, flowkey, ret, i) ==
  IF i >= hp.depth THEN ret
  ELSE HashPipeQueryFrom(
         hp, flowkey,
         IF hp.slots[i][HashPipeIdx(hp, i, flowkey)].flowkey = flowkey
         THEN ret + hp.slots[i][HashPipeIdx(hp, i, flowkey)].val
         ELSE ret,
         i + 1)

\* T HashPipe::query(const FlowKey<key_len> &flowkey) const
HashPipe_query(hp, flowkey) == HashPipeQueryFrom(hp, flowkey, 0, 0)

\* void HashPipe::clear()
HashPipe_clear(hp) ==
  [hp EXCEPT !.slots = [i \in DOMAIN @ |-> [j \in DOMAIN @[i] |-> Entry(1)]]]

-----------------------------------------------------------------------------
(* SpecHP: a Hash-Pipe of 2 stages under any sequence of update, query and  *)
(* clear calls.                                                             *)

\* The flow keys of the model: the all-zero key and keys that share their
\* slot at both stages.
HpKeys == {<<b>> : b \in 0 .. MaxKey + 1}

HpDeltas == {-1, 1, 2}

\* skObs: op, key, val, ret: the last call; before: the sketch before it;
\* nops: the number of calls; truth[k]: the sum of the values update(k, .)
\* was given since construction or the last clear; nonneg: no update with a
\* negative value since then.
HpObsInit(hp) ==
  [op |-> "init", key |-> ZeroKey(1), val |-> 0, ret |-> 0, before |-> hp,
   nops |-> 0, truth |-> [k \in HpKeys |-> 0], nonneg |-> TRUE]

HpInit ==
  /\ \E p \in 0 .. MaxHashParam : sk = HashPipe(2, 2, SkHashFns(p, 0, 2))
  /\ skObs = HpObsInit(sk)
  /\ dynT = Idle /\ dynX = Idle /\ dynLast = Idle
  /\ hier = Idle /\ chObs = Idle /\ thPc = Idle
  /\ gnd = Idle /\ gndObs = Idle /\ fkey = Idle /\ fkeyObs = Idle

HpFrame == UNCHANGED <<dynVars, chVars, dataVars>>

HpUpdate ==
  /\ skObs.nops < MaxOps
  /\ \E key \in HpKeys, val \in HpDeltas :
       /\ sk' = HashPipe_update(sk, key, val)
       /\ skObs' = [skObs EXCEPT
            !.op = "update", !.key = key, !.val = val, !.ret = 0,
            !.before = sk, !.nops = @ + 1,
            !.truth = [@ EXCEPT ![key] = @ + val],
            !.nonneg = @ /\ val >= 0]
  /\ HpFrame

HpQuery ==
  /\ skObs.op # "query"
  /\ \E key \in HpKeys :
       /\ sk' = sk
       /\ skObs' = [skObs EXCEPT
            !.op = "query", !.key = key, !.val = 0,
            !.ret = HashPipe_query(sk, key), !.before = sk]
  /\ HpFrame

HpClear ==
  /\ skObs.nops < MaxOps
  /\ sk' = HashPipe_clear(sk)
  /\ skObs' = [skObs EXCEPT
       !.op = "clear", !.key = ZeroKey(1), !.val = 0, !.ret = 0,
       !.before = sk, !.nops = @ + 1,
       !.truth = [k \in HpKeys |-> 0], !.nonneg = TRUE]
  /\ HpFrame

HpNext == HpUpdate \/ HpQuery \/ HpClear

SpecHP == HpInit /\ [][HpNext]_vars

\* A slot is empty when it holds the all-zero key, as after construction
\* and clear.
SlotEmpty(slot) == slot.flowkey = ZeroKey(Len(slot.flowkey))

NoPair == [some |-> FALSE, flowkey |-> <<>>, val |-> 0]
Pair(flowkey, val) == [some |-> TRUE, flowkey |-> flowkey, val |-> val]

\* The slot of stage s that the pair c meets.
Met(hp, s, c) == hp.slots[s][HashPipeIdx(hp, s, c.flowkey)]

RECURSIVE CarriedInto(_, _, _, _)
\* The pair that update(k, delta) on hp brings to stage s: (k, delta) at
\* stage 0; later the pair that left stage s - 1, which is none after a
\* merge or a placement, the occupant after a replacement, and the pair
\* that came in when the occupant stayed.
CarriedInto(hp, k, delta, s) ==
  IF s = 0 THEN Pair(k, delta)
  ELSE LET c == CarriedInto(hp, k, delta, s - 1)
       IN  IF ~c.some THEN NoPair
           ELSE IF Met(hp, s - 1, c).flowkey = c.flowkey
                     \/ SlotEmpty(Met(hp, s - 1, c))
           THEN NoPair
           ELSE IF s - 1 = 0 \/ Met(hp, s - 1, c).val < c.val
           THEN Pair(Met(hp, s - 1, c).flowkey, Met(hp, s - 1, c).val)
           ELSE c

\* What slot j of stage s holds after the pair c came to the stage.
SlotAfter(hp, s, j, c) ==
  IF ~c.some \/ j # HashPipeIdx(hp, s, c.flowkey) THEN hp.slots[s][j]
  ELSE IF hp.slots[s][j].flowkey = c.flowkey
  THEN [flowkey |-> c.flowkey, val |-> hp.slots[s][j].val + c.val]
  ELSE IF SlotEmpty(hp.slots[s][j]) \/ s = 0 \/ hp.slots[s][j].val < c.val
  THEN [flowkey |-> c.flowkey, val |-> c.val]
  ELSE hp.slots[s][j]

\* C21: Hash-Pipe update(k, delta).  At stage 0 a slot holding k gets delta
\* added, an empty slot takes (k, delta), and otherwise (k, delta) replaces
\* the occupant, which becomes the carried pair.  At each later stage the
\* carried pair is merged into a slot holding its key, placed in an empty
\* slot, and swapped with the occupant only if the occupant's value is
\* strictly smaller (on a tie the occupant stays and the same pair is
\* carried on); a pair carried past the last stage is dropped.
C21_HashPipeUpdate ==
  skObs.op = "update" =>
    \A s \in 0 .. sk.depth - 1 :
      \A j \in 0 .. sk.width - 1 :
        sk.slots[s][j] =
          SlotAfter(skObs.before, s, j,
                    CarriedInto(skObs.before, skObs.key, skObs.val, s))

\* An update whose evicted occupant met, at stage 1, an occupant of the
\* same value and another key: that occupant stayed and the carried pair
\* was dropped.
C21_Witness ==
  /\ skObs.op = "update"
  /\ CarriedInto(skObs.before, skObs.key, skObs.val, 1).some
  /\ CarriedInto(skObs.before, skObs.key, skObs.val, 2).some
  /\ CarriedInto(skObs.before, skObs.key, skObs.val, 2) =
       CarriedInto(skObs.before, skObs.key, skObs.val, 1)
  /\ Met(skObs.before, 1,
         CarriedInto(skObs.before, skObs.key, skObs.val, 1)).val =
       CarriedInto(skObs.before, skObs.key, skObs.val, 1).val
  /\ sk.slots[1] = skObs.before.slots[1]

\* The slots of a Hash-Pipe, as pairs <<stage, index>>.
HpSlots(hp) == (0 .. hp.depth - 1) \X (0 .. hp.width - 1)

RECURSIVE HpSlotSum(_, _)
\* The sum of the values of the slots in S.
HpSlotSum(hp, S) ==
  IF S = {} THEN 0
  ELSE LET x == CHOOSE y \in S : TRUE
       IN  hp.slots[x[1]][x[2]].val + HpSlotSum(hp, S \ {x})

\* The slots that hold key k.
HpHolding(hp, k) == {x \in HpSlots(hp) : hp.slots[x[1]][x[2]].flowkey = k}

\* C29: Hash-Pipe never overestimates.  With only non-negative updates,
\* every slot holds a key that was updated, the values of the slots holding
\* a key k sum to at most the total of the values k was updated with, so
\* query(k) is at most that total for every key k, and the sum of all slot
\* values is at most the sum of all values applied.
C29_HashPipeNeverOver ==
  skObs.nonneg =>
    /\ \A k \in HpKeys :
         /\ HpSlotSum(sk, HpHolding(sk, k)) <= skObs.truth[k]
         /\ HashPipe_query(sk, k) <= skObs.truth[k]
         /\ HashPipe_query(sk, k) >= 0
    /\ \A x \in HpSlots(sk) : sk.slots[x[1]][x[2]].flowkey \in HpKeys
    /\ HpSlotSum(sk, HpSlots(sk)) <= SumOver(skObs.truth, HpKeys)
    /\ skObs.op = "query" => skObs.ret <= skObs.truth[skObs.key]

\* A query, after non-negative updates only, of a key other than the
\* all-zero key whose pair was dropped after the last stage, while another
\* key is held in both stages with its whole total.
C29_Witness ==
  /\ skObs.op = "query" /\ skObs.nonneg
  /\ skObs.key # ZeroKey(1)
  /\ skObs.ret < skObs.truth[skObs.key]
  /\ \E k \in HpKeys :
       /\ Cardinality(HpHolding(sk, k)) = 2
       /\ HashPipe_query(sk, k) = skObs.truth[k]
       /\ skObs.truth[k] > 0

-----------------------------------------------------------------------------
(* SpecCBF: a counting Bloom filter under any sequence of insert, lookup,   *)
(* remove and clear calls.                                                  *)

\* The second half of remove, scan being the outcome of its first loop.
CountingBloomFilterRemoveAfter(scan, key) ==
  IF scan.threw = "none" /\ scan.i = scan.cbf.nhash
  THEN [cbf |-> CountingBloomFilterAddFrom(scan.cbf, key, -1, 0),
        threw |-> "none"]
  ELSE [cbf |-> scan.cbf, threw |-> scan.threw]

\* void CountingBloomFilter::remove(const FlowKey<key_len> &flowkey)
CountingBloomFilter_remove(cbf, key) ==
  CountingBloomFilterRemoveAfter(CountingBloomFilterScan(cbf, key, 0), key)

\* skObs: op, key, ret, threw: the last call; before: the filter before it;
\* nops: the number of insert, remove and clear calls; present: the keys
\* inserted and not removed since; paired: every remove so far was of a key
\* in present; anyThrew: a call has thrown; skipped: an insert has
\* returned without incrementing; inRange: after every call so far every
\* counter held a value of cnt_length bits; cleared: clear was called.
CbfObsInit(cbf) ==
  [op |-> "init", key |-> ZeroKey(1), ret |-> FALSE, threw |-> "none",
   before |-> cbf, nops |-> 0, present |-> {}, paired |-> TRUE,
   anyThrew |-> FALSE, skipped |-> FALSE, inRange |-> TRUE,
   cleared |-> FALSE]

\* Every counter of cbf holds a value of cnt_length bits.
CbfInRange(cbf) ==
  \A idx \in 0 .. cbf.ncnt - 1 :
    /\ GetOriginalCnt(cbf.counter, idx) >= 0
    /\ GetOriginalCnt(cbf.counter, idx) < 2 ^ cbf.counter.width_cnt[0]

CbfInit ==
  /\ \E p \in 0 .. MaxHashParam, len \in 1 .. 2 :
       sk = CountingBloomFilter(3, 2, len, SkHashFns(p, 0, 2))
  /\ skObs = CbfObsInit(sk)
  /\ dynT = Idle /\ dynX = Idle /\ dynLast = Idle
  /\ hier = Idle /\ chObs = Idle /\ thPc = Idle
  /\ gnd = Idle /\ gndObs = Idle /\ fkey = Idle /\ fkeyObs = Idle

CbfInsert ==
  /\ skObs.nops < MaxOps + 1
  /\ \E key \in Keys :
       \E r \in {CountingBloomFilter_insert(sk, key)} :
         /\ sk' = r.cbf
         /\ skObs' = [skObs EXCEPT
              !.op = "insert", !.key = key, !.ret = FALSE,
              !.threw = r.threw, !.before = sk, !.nops = @ + 1,
              !.present = @ \cup {key},
              !.anyThrew = @ \/ r.threw # "none",
              !.skipped = @ \/ r.cbf.counter.original_cnt
                                  = sk.counter.original_cnt,
              !.inRange = @ /\ CbfInRange(r.cbf)]
  /\ HpFrame

CbfLookup ==
  /\ skObs.op # "lookup"
  /\ \E key \in Keys :
       \E r \in {CountingBloomFilter_lookup(sk, key)} :
         /\ sk' = r.cbf
         /\ skObs' = [skObs EXCEPT
              !.op = "lookup", !.key = key, !.ret = r.ret,
              !.threw = r.threw, !.before = sk,
              !.anyThrew = @ \/ r.threw # "none"]
  /\ HpFrame

CbfRemove ==
  /\ skObs.nops < MaxOps + 1
  /\ \E key \in Keys :
       \E r \in {CountingBloomFilter_remove(sk, key)} :
         /\ sk' = r.cbf
         /\ skObs' = [skObs EXCEPT
              !.op = "remove", !.key = key, !.ret = FALSE,
              !.threw = r.threw, !.before = sk, !.nops = @ + 1,
              !.present = @ \ {key},
              !.paired = @ /\ key \in skObs.present,
              !.anyThrew = @ \/ r.threw # "none",
              !.inRange = @ /\ CbfInRange(r.cbf)]
  /\ HpFrame

CbfClear ==
  /\ skObs.nops < MaxOps + 1
  /\ sk' = CountingBloomFilter_clear(sk)
  /\ skObs' = [skObs EXCEPT
       !.op = "clear", !.key = ZeroKey(1), !.ret = FALSE, !.threw = "none",
       !.before = sk, !.nops = @ + 1, !.present = {}, !.cleared = TRUE]
  /\ HpFrame

CbfNext == CbfInsert \/ CbfLookup \/ CbfRemove \/ CbfClear

SpecCBF == CbfInit /\ [][CbfNext]_vars

\* The value of counter idx: the sum of what it was updated with.
CbfCount(cbf, idx) == GetOriginalCnt(cbf.counter, idx)

\* The counter that the i-th hashing object sends key to.
CbfIdx(cbf, key, i) == HashKey(cbf.hash_fns[i], key) % cbf.ncnt

\* The number of hashing objects that send key to counter idx.
CbfHits(cbf, key, idx) ==
  Cardinality({i \in 0 .. cbf.nhash - 1 : CbfIdx(cbf, key, i) = idx})

CbfSomeZero(cbf, key) ==
  \E i \in 0 .. cbf.nhash - 1 : CbfCount(cbf, CbfIdx(cbf, key, i)) = 0

\* Every counter of after is that of before plus by for each hashing object
\* that sends key to it.
CbfStepped(before, after, key, by) ==
  \A idx \in 0 .. before.ncnt - 1 :
    CbfCount(after, idx) =
      CbfCount(before, idx) + by * CbfHits(before, key, idx)

\* What the last call did, by the counters before it.
CbfEffect ==
  /\ skObs.op = "insert" =>
       CbfStepped(skObs.before, sk, skObs.key,
                  IF CbfSomeZero(skObs.before, skObs.key) THEN 1 ELSE 0)
  /\ skObs.op = "lookup" =>
       /\ skObs.ret = ~CbfSomeZero(skObs.before, skObs.key)
       /\ CbfStepped(skObs.before, sk, skObs.key, 0)
  /\ skObs.op = "remove" =>
       CbfStepped(skObs.before, sk, skObs.key,
                  IF CbfSomeZero(skObs.before, skObs.key) THEN 0 ELSE -1)

\* C22: insert(k) increments each of the h hashed counters by 1 if and
\* only if at least one of them is zero, lookup(k) is true if and only if
\* all of them are non-zero, and remove(k) decrements each by 1 if and only
\* if all of them are non-zero; stated of the calls that return, in a run
\* where no call has failed.
C22_CountingBloomFilterOps ==
  (skObs.op \in {"insert", "lookup", "remove"} /\ ~skObs.anyThrew) =>
    CbfEffect

\* A remove that decremented two counters of a key that another insert had
\* left untouched because none of its counters was zero.
C22_Witness ==
  /\ skObs.op = "remove" /\ ~skObs.anyThrew
  /\ ~CbfSomeZero(skObs.before, skObs.key)
  /\ \E idx \in 0 .. sk.ncnt - 1 :
       CbfCount(sk, idx) = CbfCount(skObs.before, idx) - 1
  /\ \E idx \in 0 .. sk.ncnt - 1 : CbfCount(sk, idx) > 0

-----------------------------------------------------------------------------
(* SpecRad: one Flow-Radar under any sequence of update, decode and clear.  *)
(* sk is the FlowRadar object.                                              *)

\* The loop `while (!set.empty())` of decode counted: the number of times
\* its body is entered after n times, counting stops at cap.
RECURSIVE FlowRadarDecodeRounds(_, _, _, _)
RECURSIVE FlowRadarDecodeRoundsAt(_, _, _, _, _)
RECURSIVE FlowRadarDecodeRoundsPeeled(_, _, _)
FlowRadarDecodeRoundsPeeled(p, n, cap) ==
  FlowRadarDecodeRounds(p.fr, p.set, n, cap)

FlowRadarDecodeRoundsAt(fr, set, n, cap, index) ==
  IF fr.count_table[index].flow_count > 1 THEN n + 1
  ELSE IF fr.count_table[index].flow_count = 0
  THEN FlowRadarDecodeRounds(fr, set \ {index}, n + 1, cap)
  ELSE FlowRadarDecodeRoundsPeeled(
         FlowRadarPeel(fr, set \ {index}, fr.count_table[index].flowXOR,
                       fr.count_table[index].packet_count, 0),
         n + 1, cap)

FlowRadarDecodeRounds(fr, set, n, cap) ==
  IF set = {} \/ n >= cap THEN n
  ELSE FlowRadarDecodeRoundsAt(fr, set, n, cap, FlowRadarBegin(fr, set))

\* The flow keys of the model's Flow-Radar: FlowKey<1> with the byte
\* 0 .. MaxKey + 1.
RadKeys == {<<b>> : b \in 0 .. MaxKey + 1}
RadDeltas == {-1, 2}

\* skObs: op, key, val, ret: the last call, its arguments and the
\* Estimation a decode returned; before: the object before the call; nops:
\* the number of calls; admitted: the keys that update took for new since
\* construction or the last clear, in order; pure: no decode since then;
\* rounds: the rounds of the loop of the last decode, counted up to
\* cap; again: the last two calls were both decode.
RadObsInit(fr) ==
  [op |-> "init", key |-> ZeroKey(1), val |-> 0, ret |-> EmptyMap,
   before |-> fr, nops |-> 0, admitted |-> <<>>, pure |-> TRUE,
   rounds |-> 0, cap |-> 0, again |-> FALSE]

RadInit ==
  /\ \E p \in 0 .. MaxHashParam :
       sk = FlowRadar(1, 2, 1, 5, 2, SkHashFns(p, 1, 2), SkHashFns(p, 0, 1))
  /\ skObs = RadObsInit(sk)
  /\ dynT = Idle /\ dynX = Idle /\ dynLast = Idle
  /\ hier = Idle /\ chObs = Idle /\ thPc = Idle
  /\ gnd = Idle /\ gndObs = Idle /\ fkey = Idle /\ fkeyObs = Idle

RadUpdate ==
  /\ skObs.nops < MaxOps + 1
  /\ \E key \in RadKeys, val \in RadDeltas :
       /\ sk' = FlowRadar_update(sk, key, val)
       /\ skObs' = [skObs EXCEPT
            !.op = "update", !.key = key, !.val = val, !.ret = EmptyMap,
            !.before = sk, !.nops = @ + 1,
            !.admitted = IF BloomFilter_lookup(sk.flow_filter, key)
                         THEN @ ELSE Append(@, key),
            !.rounds = 0, !.cap = 0, !.again = FALSE]
  /\ HpFrame

\* The bound on the rounds of decode that the model counts up to: every
\* round erases a row from the set, the set starts with all rows and each
\* peeled key puts its rows back.
RadCap(fr, admitted) ==
  fr.num_count_table + fr.num_count_hash * (Len(admitted) + 1) + 1

RadDecode ==
  /\ skObs.nops < MaxOps + 1
  /\ \E cap \in {RadCap(sk, skObs.admitted)} :
       \E n \in {FlowRadarDecodeRounds(sk, 0 .. sk.num_count_table - 1,
                                       0, cap)} :
         \E r \in {IF n < cap THEN FlowRadar_decode(sk)
                   ELSE [fr |-> sk, est |-> EmptyMap]} :
           /\ sk' = r.fr
           /\ skObs' = [skObs EXCEPT
                !.op = "decode", !.key = ZeroKey(1), !.val = 0,
                !.ret = r.est, !.before = sk, !.nops = @ + 1,
                !.pure = FALSE, !.rounds = n, !.cap = cap,
                !.again = skObs.op = "decode"]
  /\ HpFrame

RadClear ==
  /\ skObs.nops < MaxOps + 1
  /\ skObs.op # "clear"
  /\ sk' = FlowRadar_clear(sk)
  /\ skObs' = [skObs EXCEPT
       !.op = "clear", !.key = ZeroKey(1), !.val = 0, !.ret = EmptyMap,
       !.before = sk, !.nops = @ + 1, !.admitted = <<>>, !.pure = TRUE,
       !.rounds = 0, !.cap = 0, !.again = FALSE]
  /\ HpFrame

RadNext == RadUpdate \/ RadDecode \/ RadClear

SpecRad == RadInit /\ [][RadNext]_vars

\* The row that the i-th hashing object sends key to.
RadIdx(fr, key, i) == HashKey(fr.hash_fns[i], key) % fr.num_count_table

\* The number of hashing objects that send key to row.
RadHits(fr, key, row) ==
  Cardinality({i \in 0 .. fr.num_count_hash - 1 : RadIdx(fr, key, i) = row})

\* key XORed n times into x.
RadXorTimes(x, key, n) == IF n % 2 = 1 THEN XorKey(x, key) ELSE x

\* The sum of flow_count over the rows from row on.
RECURSIVE RadFlowCountSum(_, _)
RadFlowCountSum(fr, row) ==
  IF row >= fr.num_count_table THEN 0
  ELSE fr.count_table[row].flow_count + RadFlowCountSum(fr, row + 1)

\* The XOR of the keys of the sequence keys from the i-th on that are
\* hashed to row, each as many times as hashing objects send it there.
RECURSIVE RadXorOf(_, _, _, _)
RadXorOf(fr, keys, row, i) ==
  IF i > Len(keys) THEN ZeroKey(fr.key_len)
  ELSE RadXorTimes(RadXorOf(fr, keys, row, i + 1), keys[i],
                   RadHits(fr, keys[i], row))

\* The last update took its key for new.
RadNew == ~BloomFilter_lookup(skObs.before.flow_filter, skObs.key)

\* What the last update did to the rows and the filter.
RadUpdateEffect ==
  /\ \A row \in 0 .. sk.num_count_table - 1 :
       /\ sk.count_table[row].packet_count =
            skObs.before.count_table[row].packet_count
              + skObs.val * RadHits(sk, skObs.key, row)
       /\ sk.count_table[row].flow_count =
            skObs.before.count_table[row].flow_count
              + (IF RadNew THEN RadHits(sk, skObs.key, row) ELSE 0)
       /\ sk.count_table[row].flowXOR =
            RadXorTimes(skObs.before.count_table[row].flowXOR, skObs.key,
                        IF RadNew THEN RadHits(sk, skObs.key, row) ELSE 0)
  /\ BloomFilter_lookup(sk.flow_filter, skObs.key)
  /\ ~RadNew => sk.flow_filter = skObs.before.flow_filter

\* The rows after updates alone.
RadTotals ==
  /\ RadFlowCountSum(sk, 0) = sk.num_count_hash * Len(skObs.admitted)
  /\ \A row \in 0 .. sk.num_count_table - 1 :
       sk.count_table[row].flowXOR = RadXorOf(sk, skObs.admitted, row, 1)

\* C23: update(k, delta) increments flow_count and XORs k into flowXOR in
\* each hashed row only when the flow filter reports k absent, and then
\* inserts k into the filter; it always adds delta to packet_count in every
\* hashed row.  After any sequence of updates the sum of flow_count over
\* the rows is num_count_hash times the number of keys admitted as new,
\* and the flowXOR of each row is the XOR of the admitted keys hashed to it.
C23_FlowRadarUpdate ==
  /\ skObs.op = "update" => RadUpdateEffect
  /\ skObs.pure => RadTotals

\* A third update, of a key that the filter reported present, after two
\* keys were admitted, one of them by both hashing objects to one row or
\* both to a common row.
C23_Witness ==
  /\ skObs.op = "update" /\ skObs.pure /\ ~RadNew
  /\ Len(skObs.admitted) = 2
  /\ \E row \in 0 .. sk.num_count_table - 1 :
       sk.count_table[row].flow_count >= 2

\* C30: decode() terminates on every count-table state reachable through
\* update calls (its loop makes fewer rounds than the rows and the rows
\* put back for the admitted keys allow); when it returns no row has
\* flow_count = 1, and a second decode() with no update in between returns
\* an empty Estimation.
C30_DecodeTerminates ==
  skObs.op = "decode" =>
    /\ skObs.rounds < skObs.cap
    /\ \A row \in 0 .. sk.num_count_table - 1 :
         sk.count_table[row].flow_count # 1
    /\ skObs.again => skObs.ret = EmptyMap

\* A second decode in a row, the first of which peeled a flow and left a
\* row that holds more than one flow.
C30_Witness ==
  /\ skObs.op = "decode" /\ skObs.again
  /\ skObs.ret = EmptyMap
  /\ Len(skObs.admitted) >= 2
  /\ \E row \in 0 .. sk.num_count_table - 1 :
       sk.count_table[row].flow_count > 1
  /\ RadFlowCountSum(sk, 0) < sk.num_count_hash * Len(skObs.admitted)
  /\ sk = skObs.before

\* The flush of the last call gave nothing to a counter of layer 0.
NothingToLayer0(log) ==
  \A k \in DOMAIN log : log[k].layer = 0 => log[k].val = 0

\* C26: when a getCnt has failed with an overflow error, a getCnt that
\* follows it with no updateCnt in between adds nothing to any counter of
\* layer 0: lazy_update holds no carries destined for an upper layer.
C26_NoCarriesLeftAfterFailure ==
  [][(/\ chObs.op = "getCnt" /\ chObs.threw \in OverflowErrors
      /\ chObs'.op = "getCnt")
       => (NothingToLayer0(chObs'.log) /\ hier'.cnt_array[0] = hier.cnt_array[0])]_vars

\* A getCnt that failed at the last layer and left in lazy_update the
\* carries it had computed for that layer.
C26_Witness ==
  /\ chObs.op = "getCnt" /\ chObs.threw = "overflow_error:last_layer"
  /\ hier.no_layer = 2
  /\ \E k \in DOMAIN chObs.log : chObs.log[k].layer = 1
  /\ DOMAIN hier.lazy_update # {}

\* The number of hash functions of layer that send counter i to counter j
\* of the layer above.
UpperHits(ch, layer, i, j) ==
  Cardinality({k \in 0 .. ch.no_hash[layer] - 1 :
                 UpperIndex(ch, layer, k, i) = j})

\* The carries of layer that counter j of the layer above was sent, for
\* the counters of layer from the i-th on.
RECURSIVE CarriedUp(_, _, _, _, _)
CarriedUp(ch, carry, layer, j, i) ==
  IF i >= ch.no_cnt[layer] THEN 0
  ELSE carry[layer][i] * UpperHits(ch, layer, i, j)
         + CarriedUp(ch, carry, layer, j, i + 1)

\* What counter i of layer holds and has passed on.
HeldAndCarried(ch, carry, layer, i) ==
  GetVal(ch.cnt_array[layer][i]) + (2 ^ ch.width_cnt[layer]) * carry[layer][i]

\* The values are conserved: layer 0 accounts for the original counters,
\* every layer above for the carries of the layer below.
Conserved(ch, carry) ==
  /\ \A i \in 0 .. ch.no_cnt[0] - 1 :
       GetOriginalCnt(ch, i) = HeldAndCarried(ch, carry, 0, i)
  /\ \A layer \in 0 .. ch.no_layer - 2 :
       \A j \in 0 .. ch.no_cnt[layer + 1] - 1 :
         HeldAndCarried(ch, carry, layer + 1, j) =
           CarriedUp(ch, carry, layer, j, 0)

\* C24: after every successful flush the value of each layer-0 index is
\* its residue plus 2^(w_0) times the net carry of its counter, and every
\* counter of a layer above holds, with 2^w times its own net carry, the
\* carries of the counters below that are hashed to it.
C24_ValueConservation ==
  (chObs.op = "getCnt" /\ chObs.flushed /\ chObs.threw = "none") =>
    Conserved(hier, chObs.carry)

\* The same of the flushes before which no getCnt has failed.
C24_ValueConservationUnfailed ==
  (chObs.op = "getCnt" /\ chObs.flushed /\ chObs.threw = "none"
     /\ ~chObs.failed) =>
    Conserved(hier, chObs.carry)

\* A successful flush of two layers in which a counter of layer 0 carried
\* into layer 1.
C24_Witness ==
  /\ chObs.op = "getCnt" /\ chObs.flushed /\ chObs.threw = "none"
  /\ ~chObs.failed
  /\ hier.no_layer = 2
  /\ \E i \in 0 .. hier.no_cnt[0] - 1 : chObs.carry[0][i] # 0
  /\ \E j \in 0 .. hier.no_cnt[1] - 1 : GetVal(hier.cnt_array[1][j]) # 0

-----------------------------------------------------------------------------
(* SpecRT: a counter hierarchy whose updates are interleaved with reads,   *)
(* next to a copy of it that is given the same updates and never read.     *)

\* The values updateCnt is called with.
RtDeltas == {-3, -1, 3}

\* chObs: op, index, val, threw: the last call on hier; nupd: the number
\* of updateCnt calls; nread: the number of getCnt calls that flushed;
\* failed: a getCnt has thrown; batch: the hierarchy that was given the
\* updates only.
RtObsInit(c) ==
  [op |-> "init", index |-> 0, val |-> 0, threw |-> "none", nupd |-> 0,
   nread |-> 0, failed |-> FALSE, batch |-> c]

RtInit ==
  /\ hier \in ChObjects
  /\ ValidHierarchy(hier.T, hier.no_cnt, hier.width_cnt, hier.no_hash)
  /\ chObs = RtObsInit(hier)
  /\ thPc = Idle
  /\ dynT = Idle /\ dynX = Idle /\ dynLast = Idle
  /\ sk = Idle /\ skObs = Idle
  /\ gnd = Idle /\ gndObs = Idle /\ fkey = Idle /\ fkeyObs = Idle

RtUpdateCnt ==
  /\ chObs.nupd < MaxUpdates + 1
  /\ \E index \in 0 .. hier.no_cnt[0] - 1, val \in RtDeltas :
       \* the sums stay values of T (signed overflow is undefined)
       /\ hier.original_cnt[index] + val \in ValuesOf(hier.T)
       /\ hier' = UpdateCnt(hier, index, val).ch
       /\ chObs' = [chObs EXCEPT
            !.op = "updateCnt", !.index = index, !.val = val,
            !.threw = "none", !.nupd = @ + 1,
            !.batch = UpdateCnt(@, index, val).ch]
  /\ UNCHANGED <<thPc, dynVars, skVars, dataVars>>

RtGetCnt ==
  /\ chObs.op = "updateCnt"
  /\ \E index \in 0 .. hier.no_cnt[0] - 1 :
       \E und \in UndChoices(hier) :
         \E r \in {GetCnt(hier, index, und)} :
           /\ hier' = r.ch
           /\ chObs' = [chObs EXCEPT
                !.op = "getCnt", !.index = index, !.val = 0,
                !.threw = r.threw,
                !.nread = IF r.flushed THEN @ + 1 ELSE @,
                !.failed = @ \/ r.threw # "none"]
  /\ UNCHANGED <<thPc, dynVars, skVars, dataVars>>

RtNext == RtUpdateCnt \/ RtGetCnt

SpecRT == RtInit /\ [][RtNext]_vars

\* The hierarchy after the final flush: the flush loop of getCnt when
\* updates are pending.  [ch, threw]
FinalFlush(ch) ==
  IF DOMAIN ch.lazy_update = {} THEN [ch |-> ch, threw |-> "none"]
  ELSE [ch |-> FlushFrom(ch, 0, <<>>).ch,
        threw |-> FlushFrom(ch, 0, <<>>).threw]

\* Every getCnt so far has returned, and so do the final flushes of both
\* hierarchies.
AllReadsReturn ==
  /\ ~chObs.failed
  /\ FinalFlush(hier).threw = "none"
  /\ FinalFlush(chObs.batch).threw = "none"

\* C25 as stated: getCnt calls that return, put between the updates, do
\* not change the state after the final flush: the counters and the status
\* bits of every layer are those of the hierarchy flushed in one batch.
C25_ReadsTransparent ==
  AllReadsReturn =>
    /\ FinalFlush(hier).ch.cnt_array = FinalFlush(chObs.batch).ch.cnt_array
    /\ FinalFlush(hier).ch.status_bits
         = FinalFlush(chObs.batch).ch.status_bits

\* C25, amended: the counters of every layer are the same; the status bits
\* set by the one batch are set with the reads in between as well, which
\* may set more.
C25_ReadsKeepCounters ==
  AllReadsReturn =>
    /\ FinalFlush(hier).ch.cnt_array = FinalFlush(chObs.batch).ch.cnt_array
    /\ \A l \in DOMAIN hier.no_cnt :
         \A i \in 0 .. hier.no_cnt[l] - 1 :
           FinalFlush(chObs.batch).ch.status_bits[l][i]
             => FinalFlush(hier).ch.status_bits[l][i]

\* Two flushes by reads and a pending update, with a carry into layer 1 in
\* both hierarchies.
C25_Witness ==
  /\ AllReadsReturn
  /\ chObs.nread >= 1 /\ chObs.nupd >= 2
  /\ hier.no_layer = 2
  /\ \E i \in 0 .. hier.no_cnt[0] - 1 :
       /\ FinalFlush(chObs.batch).ch.status_bits[0][i]
       /\ FinalFlush(hier).ch.status_bits[0][i]
  /\ \E j \in 0 .. hier.no_cnt[1] - 1 :
       GetVal(FinalFlush(hier).ch.cnt_array[1][j]) # 0

\* What getCnt(idx) returns on the hierarchy ch when nothing is pending.
ReadNow(ch, idx) ==
  GetCnt(ch, idx, CHOOSE u \in UndChoices(ch) : TRUE).ret

\* C27: after clear(), and until the next updateCnt, getCnt(i) and
\* getOriginalCnt(i) return 0 for every index i of layer 0; so right after
\* the clear() of a counting Bloom filter lookup is false for every key.
C27_ClearResetsReads ==
  skObs.op = "clear" =>
    /\ \A idx \in 0 .. sk.counter.no_cnt[0] - 1 :
         /\ ReadNow(sk.counter, idx) = 0
         /\ GetOriginalCnt(sk.counter, idx) = 0
    /\ \A key \in Keys : ~CountingBloomFilter_lookup(sk, key).ret

\* A clear() of a filter whose hierarchy had been flushed with a counter
\* set: the counters and the original counters are zero.
C27_Witness ==
  /\ skObs.op = "clear"
  /\ \E idx \in 0 .. sk.counter.no_cnt[0] - 1 :
       GetVal(skObs.before.counter.cnt_array[0][idx]) # 0
  /\ \A idx \in 0 .. sk.counter.no_cnt[0] - 1 :
       /\ GetVal(sk.counter.cnt_array[0][idx]) = 0
       /\ GetOriginalCnt(sk.counter, idx) = 0
  /\ DOMAIN sk.counter.lazy_update = {}

\* Every key inserted and not removed is looked up true, without an error.
PresentFound ==
  \A key \in skObs.present :
    /\ CountingBloomFilter_lookup(sk, key).threw = "none"
    /\ CountingBloomFilter_lookup(sk, key).ret

\* C28 as stated: in any sequence of insert and remove calls in which
\* remove(k) is only called for a key inserted before and not yet removed,
\* every key inserted and not removed has lookup = true and no lookup
\* fails with a counter-overflow error.
C28_NoFalseNegatives ==
  (skObs.paired /\ ~skObs.cleared) =>
    /\ PresentFound
    /\ skObs.op = "lookup" => skObs.threw \notin OverflowErrors

\* C28, amended: the same of the sequences in which, in addition, every
\* insert found a counter of its key at zero and incremented, and no
\* counter was incremented beyond 2^cnt_length - 1; in those no call fails.
C28_NoFalseNegativesUnskipped ==
  (skObs.paired /\ ~skObs.cleared /\ ~skObs.skipped /\ skObs.inRange) =>
    /\ PresentFound
    /\ ~skObs.anyThrew

\* Two keys that share a counter are present after a third was inserted
\* and removed, and the last call was a lookup.
C28_Witness ==
  /\ skObs.paired /\ ~skObs.cleared /\ ~skObs.skipped /\ skObs.inRange
  /\ skObs.op = "lookup" /\ skObs.ret
  /\ Cardinality(skObs.present) = 2
  /\ skObs.nops = 4
  /\ \E idx \in 0 .. sk.ncnt - 1 : GetOriginalCnt(sk.counter, idx) = 2

=============================================================================
